---------------------------- MODULE Spec2Model ----------------------------
(***************************************************************************)
(* Extrinsic flows of the command-line client: transfer_extrinsic          *)
(* (extrinsics/transfer.py) and the flows of commands/root.py, over a      *)
(* chain session whose answers are the environment's choices.              *)
(*                                                                         *)
(* One flow runs at a time (the CLI invokes exactly one flow per call);    *)
(* a finished flow may be followed by a fresh invocation against the same  *)
(* chain.  Every await of a flow is a step at which the chain may advance. *)
(*                                                                         *)
(* Amounts are Balance values [tao, rao] standing for tao * 10^9 + rao rao *)
(* (0 <= rao < 10^9), so that values above 2^31 rao stay representable.    *)
(* Takes are fractions in thousandths (150 is 0.15).                       *)
(***************************************************************************)
EXTENDS Integers, Sequences, FiniteSets, TLC

\* ------------------------------------------------------------- constants

RAO_PER_TAO == 1000000000

U16_MAX == 65535

\* int(2e7): the fee assumed when get_payment_info fails
DEFAULT_FEE == 20000000

\* Balance.from_rao(1000), withheld by delegate_extrinsic
B1K == 1000

\* 0.18, in thousandths
TAKE_CEILING == 180

\* ---------------------------------------------------------------- bounds

\* blocks the chain may produce while the flows run
MaxHead == 1

\* ------------------------------------------------------- Balance (value)

Bal(t, r) == [tao |-> t, rao |-> r]

\* Balance.from_rao / Balance(int)
from_rao(n) == Bal(n \div RAO_PER_TAO, n % RAO_PER_TAO)

\* Balance.__add__
BalAdd(a, b) ==
    LET r == a.rao + b.rao
    IN  Bal(a.tao + b.tao + (r \div RAO_PER_TAO), r % RAO_PER_TAO)

\* Balance.__sub__
BalSub(a, b) ==
    LET r == a.rao - b.rao
    IN  IF r >= 0 THEN Bal(a.tao - b.tao, r)
                  ELSE Bal(a.tao - b.tao - 1, r + RAO_PER_TAO)

\* Balance.__lt__ / __gt__
BalLt(a, b) == a.tao < b.tao \/ (a.tao = b.tao /\ a.rao < b.rao)

BalGt(a, b) == BalLt(b, a)

\* Balance.from_tao(x) = Balance(int(x * 10^9)); applied to a Balance x the
\* product is taken on x.rao
from_tao(x) == Bal(x.tao * RAO_PER_TAO + x.rao, 0)

\* ------------------------------------------------------ address validator

\* A destination is described by what the validator looks at: its Python
\* type, whether a str starts with "0x", its length, and what the SS58 /
\* keypair library does with it (accept, reject, or raise).
Dest(k, h, n, l) == [kind |-> k, hex |-> h, len |-> n, lib |-> l]

Destinations ==
    { Dest("str", FALSE, 48, "ok"),
      Dest("str", FALSE, 48, "reject"),
      Dest("str", FALSE, 3, "IndexError"),
      Dest("str", FALSE, 48, "OtherError"),
      Dest("str", TRUE, 66, "ok"),
      Dest("str", TRUE, 64, "ValueError"),
      Dest("str", TRUE, 10, "ok"),
      Dest("str", TRUE, 66, "OtherError"),
      Dest("bytes", FALSE, 32, "ok"),
      Dest("bytes", FALSE, 16, "ok"),
      Dest("other", FALSE, 0, "ok") }

\* the destinations handed to transfer_extrinsic
TransferDestinations ==
    { d \in Destinations :
        \/ d.kind = "other"
        \/ d.kind = "bytes" /\ d.len = 16
        \/ d.kind = "str" /\ ~d.hex
        \/ d.kind = "str" /\ d.hex /\ d.lib = "ok" }

\* Results are "True", "False" or "raise" (an exception leaves the function).
is_valid_ss58_address(address) ==
    CASE address.lib = "ok" -> "True"
      [] address.lib = "reject" -> "False"
      [] address.lib = "IndexError" -> "False"
      [] OTHER -> "raise"

is_valid_ed25519_pubkey(public_key) ==
    IF public_key.kind = "str" /\ public_key.len # 64 /\ public_key.len # 66
    THEN "False"
    ELSE IF public_key.kind = "bytes" /\ public_key.len # 32
    THEN "False"
    ELSE IF public_key.kind \notin {"str", "bytes"}
    THEN "False"
    ELSE CASE public_key.lib = "ok" -> "True"
           [] public_key.lib = "reject" -> "False"
           [] public_key.lib \in {"ValueError", "IndexError"} -> "False"
           [] OTHER -> "raise"

is_valid_bittensor_address_or_public_key(address) ==
    IF address.kind = "str"
    THEN IF address.hex THEN is_valid_ed25519_pubkey(address)
                        ELSE is_valid_ss58_address(address)
    ELSE IF address.kind = "bytes"
    THEN is_valid_ed25519_pubkey(address)
    ELSE "False"

\* ------------------------------------------------------------ input sets

\* amount.rao of a transfer
TransferAmounts == {30, 99}

\* partialFee answered by get_payment_info
FeeValues == {1}

\* the chain's existential deposit
EDValues == {1, 50}

\* takes a caller may request, in thousandths
TakeValues == {-50, 0, 50, 100, 150, 180, 181, 200}

\* what delegateInfo_getDelegate may answer: no result, or a delegate with
\* its take (in thousandths)
DelegateInfos ==
    { [none |-> TRUE, take |-> 0], [none |-> FALSE, take |-> 100],
      [none |-> FALSE, take |-> 0] }

\* amount.rao of a delegation
DelegateAmounts == {0, 500, 5000, 5001}

\* where the re-queried vote data shows the voter's hotkey ("none": the
\* Voting entry cannot be read)
VoteRecords == {"ayes", "nays", "absent", "none"}

\* free balances the coldkey may have at a block
BalanceValues ==
    { Bal(0, 100), Bal(0, 1000), Bal(4999, 999999000) }

\* what get_delegates_details_from_github gives: no data (None), a registry
\* without entries, or a registry that knows the hotkey "hk1" only
RegistryAnswers == {"None", "empty", "partial"}

\* the hotkeys a view has a row for (neurons, senate members, delegates,
\* voters)
HotkeyLists == {<<>>, <<"hk2">>, <<"hk1", "hk2">>}

\* the Burn hyperparameter of a subnet, in rao
RecycleValues == {50}

\* the longest weight list a root neuron has stored
MaxWeights == 2

\* stored weight values
WeightValues == {0, 1, 3}

RECURSIVE SeqsUpTo(_, _)
\* the sequences over S of length at most n
SeqsUpTo(S, n) ==
    IF n = 0 THEN {<<>>}
    ELSE LET shorter == SeqsUpTo(S, n - 1)
         IN  shorter \cup {Append(q, x) : q \in shorter, x \in S}

\* the weight lists [(netuid, val), ...] the chain stores for a uid: at most
\* one entry per netuid
WeightLists ==
    { wd \in SeqsUpTo((1..MaxWeights) \X WeightValues, MaxWeights) :
        \A i, j \in 1..Len(wd) : i # j => wd[i][1] # wd[j][1] }

\* ----------------------------------------------------------------- state

VARIABLES
    flow,        \* the flow being run ("none" before the first invocation)
    pc,          \* its position
    args,        \* its arguments
    loc,         \* its local variables
    result,      \* "none" while running, then "True", "False" or "raise"
    log,         \* wallet, prompt and chain-session calls of this invocation
    head,        \* the chain head (block number standing for its hash)
    balance_at,  \* the coldkey's free balance at each block 0..head
    ed           \* the chain's existential deposit

vars == <<flow, pc, args, loc, result, log, head, balance_at, ed>>

chain == <<head, balance_at, ed>>

NoCall == [fn |-> "", value |-> 0]

Call(f, v) == [fn |-> f, value |-> v]

\* a logged call: what was called, the block it was pinned to (-1: none
\* given), and the Call it carried
Ev(o, b, c) == [op |-> o, at |-> b, call |-> c]

NoLoc ==
    [block_hash |-> -1, account_balance |-> Bal(0, 0),
     existential_deposit |-> Bal(0, 0), fee |-> Bal(0, 0),
     success |-> FALSE, outcome |-> "", take_u16 |-> 0, current_take |-> 0,
     delegate |-> [none |-> TRUE, take |-> 0], call |-> NoCall,
     is_delegate |-> FALSE, neuron_is_null |-> FALSE, vote_record |-> "",
     staking_balance |-> Bal(0, 0), confirmed |-> FALSE,
     payment_info_failed |-> FALSE, submitted |-> FALSE,
     senate_member |-> "", uid_to_weights |-> <<>>, divisions |-> 0,
     current_recycle |-> Bal(0, 0), delegate_info |-> "", hotkeys |-> <<>>,
     table |-> <<>>, blocks_read |-> {}, prev_weight |-> 0]

\* the frame of the command that called the running extrinsic flow: its
\* name, the calls it had made and its local variables ("none": the flow was
\* invoked directly)
NoCaller == [name |-> "none", log |-> <<>>, loc |-> NoLoc]

NoArgs ==
    [destination |-> Dest("other", FALSE, 0, "ok"), amount |-> 0,
     wait_for_inclusion |-> FALSE, wait_for_finalization |-> FALSE,
     keep_alive |-> FALSE, prompt |-> FALSE, take |-> 0, delegate |-> FALSE,
     vote |-> FALSE, amount_is_none |-> FALSE, subnet_exists |-> FALSE,
     proposal_hash |-> FALSE, weights_data |-> <<>>,
     hotkey_is_delegate |-> FALSE, netuid |-> 0, caller |-> NoCaller]

Init ==
    /\ flow = "none"
    /\ pc = "idle"
    /\ args = NoArgs
    /\ loc = NoLoc
    /\ result = "none"
    /\ log = <<>>
    /\ head = 0
    /\ balance_at \in [{0} -> BalanceValues]
    /\ ed \in EDValues

\* the flow ends: return value (or exception) r
Return(r) ==
    /\ pc' = "done"
    /\ result' = r

Goto(l) ==
    /\ pc' = l
    /\ result' = result

Logged(e) == log' = Append(log, e)

At(f, l) == flow = f /\ pc = l

\* ----------------------------------------------------------------- chain

\* another block is produced; the coldkey's balance at it is the chain's
ChainAdvance ==
    /\ head < MaxHead
    /\ head' = head + 1
    /\ \E b \in BalanceValues :
           balance_at' = [n \in 0..(head + 1) |->
                             IF n <= head THEN balance_at[n] ELSE b]
    /\ UNCHANGED <<flow, pc, args, loc, result, log, ed>>


\* the invocation is over; a fresh one may follow against the same chain
flow_exit ==
    /\ pc = "done"
    /\ args.caller.name = "none"
    /\ flow' = "none"
    /\ pc' = "idle"
    /\ args' = NoArgs
    /\ loc' = NoLoc
    /\ result' = "none"
    /\ log' = <<>>
    /\ UNCHANGED chain

\* Calling an async function without await gives a coroutine object: the
\* body does not run, and the object is true in a condition ("result: bool =
\* set_take_extrinsic(...)", "if not subtensor.is_hotkey_delegate(...)",
\* "if not subtensor.subnet_exists(netuid)")
unawaited_coroutine_is_true == TRUE

\* ============================================================== transfer
\* transfer_extrinsic(subtensor, wallet, destination, amount,
\*                    wait_for_inclusion, wait_for_finalization, keep_alive,
\*                    prompt)

\* the Balance value has no item access: account_balance[address], with
\* account_balance a Balance, raises TypeError
balance_is_subscriptable == FALSE

get_transfer_fee_no_default(rpc_ok, partialFee) ==
    from_rao(IF rpc_ok THEN partialFee ELSE 0)

\* get_transfer_fee: the fee estimate, given whether get_payment_info
\* answered and the partialFee it answered with
get_transfer_fee(rpc_ok, partialFee) ==
    from_rao(IF rpc_ok THEN partialFee ELSE DEFAULT_FEE)

effective_existential_deposit_kept(keep_alive, existential_deposit) ==
    existential_deposit

\* "if not keep_alive: existential_deposit = Balance(0)"
effective_existential_deposit(keep_alive, existential_deposit) ==
    IF ~keep_alive THEN from_rao(0) ELSE existential_deposit

not_enough_balance_le(account_balance, amount, fee, existential_deposit) ==
    ~BalGt(account_balance, BalAdd(BalAdd(amount, fee), existential_deposit))

\* "if account_balance < (amount + fee + existential_deposit)"
not_enough_balance(account_balance, amount, fee, existential_deposit) ==
    BalLt(account_balance, BalAdd(BalAdd(amount, fee), existential_deposit))

inspects_response_always(wait_for_inclusion, wait_for_finalization) ==
    TRUE

\* do_transfer / _take_extrinsic after submit_extrinsic has returned:
\* whether process_events is called and the response read
inspects_response(wait_for_inclusion, wait_for_finalization) ==
    ~(~wait_for_finalization /\ ~wait_for_inclusion)

\* do_transfer / _take_extrinsic: the success flag returned; outcome is
\* what the chain does with the extrinsic
submission_success(wait_for_inclusion, wait_for_finalization, outcome) ==
    IF ~inspects_response(wait_for_inclusion, wait_for_finalization)
    THEN TRUE
    ELSE outcome = "success"

\* what submit_extrinsic may do: the chain accepts the extrinsic, rejects it
\* with a dispatch error, or the transport raises
Outcomes == {"success", "failed", "error"}

\* the session calls of a submission helper: sign, submit, and the reading
\* of the response when a wait flag is set
SubmitLog(call, wfi, wff, outcome) ==
    <<Ev("create_signed_extrinsic", -1, call), Ev("submit_extrinsic", -1, call)>>
    \o (IF outcome # "error" /\ inspects_response(wfi, wff)
        THEN <<Ev("process_events", -1, call)>> ELSE <<>>)

transfer_start ==
    /\ pc = "idle"
    /\ \E d \in TransferDestinations, a \in TransferAmounts,
          wfi \in BOOLEAN, wff \in BOOLEAN, ka \in BOOLEAN, p \in BOOLEAN :
           args' = [NoArgs EXCEPT !.destination = d, !.amount = a,
                                  !.wait_for_inclusion = wfi,
                                  !.wait_for_finalization = wff,
                                  !.keep_alive = ka, !.prompt = p]
    /\ flow' = "transfer"
    /\ pc' = "validate"
    /\ loc' = NoLoc
    /\ result' = "none"
    /\ log' = <<>>
    /\ UNCHANGED chain

transfer_validate_no_gate ==
    /\ At("transfer", "validate")
    /\ LET v == is_valid_bittensor_address_or_public_key(args.destination)
       IN  CASE v = "raise" -> Return("raise")
             [] OTHER -> Goto("unlock")
    /\ UNCHANGED <<flow, args, loc, log, chain>>

\* lines 100-105: validate the destination address
transfer_validate ==
    /\ At("transfer", "validate")
    /\ LET v == is_valid_bittensor_address_or_public_key(args.destination)
       IN  CASE v = "raise" -> Return("raise")
             [] v = "False" -> Return("False")
             [] OTHER -> Goto("unlock")
    /\ UNCHANGED <<flow, args, loc, log, chain>>

\* line 108: wallet.unlock_coldkey() (raises on a bad passphrase)
transfer_unlock ==
    /\ At("transfer", "unlock")
    /\ Logged(Ev("unlock_coldkey", -1, NoCall))
    /\ \E ok \in BOOLEAN : IF ok THEN Goto("head") ELSE Return("raise")
    /\ UNCHANGED <<flow, args, loc, chain>>

\* line 113: block_hash = get_chain_head()
transfer_get_chain_head ==
    /\ At("transfer", "head")
    /\ loc' = [loc EXCEPT !.block_hash = head]
    /\ Logged(Ev("get_chain_head", -1, NoCall))
    /\ Goto("gather")
    /\ UNCHANGED <<flow, args, chain>>

\* lines 114-118: get_balance and get_existential_deposit at block_hash
transfer_gather ==
    /\ At("transfer", "gather")
    /\ loc' = [loc EXCEPT !.account_balance = balance_at[loc.block_hash],
                          !.existential_deposit = from_rao(ed)]
    /\ log' = log \o <<Ev("get_balance", loc.block_hash, NoCall),
                       Ev("get_existential_deposit", loc.block_hash, NoCall)>>
    /\ Goto("fee")
    /\ UNCHANGED <<flow, args, chain>>

transfer_fee_deferred ==
    /\ At("transfer", "fee")
    /\ Goto("check")
    /\ UNCHANGED <<flow, args, loc, log, chain>>

\* line 119 and get_transfer_fee (44-68)
transfer_fee ==
    /\ At("transfer", "fee")
    /\ \E rpc_ok \in BOOLEAN, partialFee \in FeeValues :
           loc' = [loc EXCEPT !.fee = get_transfer_fee(rpc_ok, partialFee),
                              !.payment_info_failed = ~rpc_ok]
    /\ log' = log \o
           <<Ev("compose_call", -1, Call("transfer_allow_death", args.amount)),
             Ev("get_payment_info", -1, Call("transfer_allow_death", args.amount))>>
    /\ Goto("check")
    /\ UNCHANGED <<flow, args, chain>>

\* lines 121-133: the balance check
transfer_check_balance ==
    /\ At("transfer", "check")
    /\ LET e == effective_existential_deposit(args.keep_alive,
                                              loc.existential_deposit)
       IN  /\ loc' = [loc EXCEPT !.existential_deposit = e]
           /\ IF not_enough_balance(loc.account_balance, from_rao(args.amount),
                                    loc.fee, e)
              THEN Return("False")
              ELSE Goto("prompt")
    /\ UNCHANGED <<flow, args, log, chain>>

\* lines 135-143: ask before moving on
transfer_prompt ==
    /\ At("transfer", "prompt")
    /\ IF args.prompt
       THEN /\ Logged(Ev("Confirm.ask", -1, NoCall))
            /\ \E answer \in BOOLEAN :
                   /\ loc' = [loc EXCEPT !.confirmed = answer]
                   /\ IF answer THEN Goto("submit") ELSE Return("False")
       ELSE /\ Goto("submit")
            /\ UNCHANGED <<loc, log>>
    /\ UNCHANGED <<flow, args, chain>>

transfer_submit_retry ==
    /\ At("transfer", "submit")
    /\ \E outcome \in Outcomes :
        LET call == Call("transfer_allow_death", args.amount)
            ok == submission_success(args.wait_for_inclusion,
                                     args.wait_for_finalization, outcome)
        IN  /\ log' = log \o <<Ev("compose_call", -1, call)>>
                          \o SubmitLog(call, args.wait_for_inclusion,
                                       args.wait_for_finalization, outcome)
            /\ loc' = [loc EXCEPT !.outcome = outcome, !.success = ok,
                                   !.submitted = TRUE]
            /\ IF outcome = "error" THEN Return("raise")
               ELSE IF ok THEN Goto("report")
               ELSE Goto("submit")
    /\ UNCHANGED <<flow, args, chain>>

\* lines 145-163 and do_transfer (70-98)
transfer_submit ==
    /\ At("transfer", "submit")
    /\ \E outcome \in Outcomes :
        LET call == Call("transfer_allow_death", args.amount)
            ok == submission_success(args.wait_for_inclusion,
                                     args.wait_for_finalization, outcome)
        IN  /\ log' = log \o <<Ev("compose_call", -1, call)>>
                          \o SubmitLog(call, args.wait_for_inclusion,
                                       args.wait_for_finalization, outcome)
            /\ loc' = [loc EXCEPT !.outcome = outcome, !.success = ok,
                                   !.submitted = TRUE]
            /\ IF outcome = "error" THEN Return("raise")
               ELSE IF ok THEN Goto("report")
               ELSE Return("False")
    /\ UNCHANGED <<flow, args, chain>>

\* lines 165-176: re-query the balance and print before and after
transfer_report ==
    /\ At("transfer", "report")
    /\ Logged(Ev("get_balance", -1, NoCall))
    /\ Return(IF balance_is_subscriptable THEN "True" ELSE "raise")
    /\ UNCHANGED <<flow, args, loc, chain>>

transfer_extrinsic ==
    \/ transfer_start
    \/ transfer_validate
    \/ transfer_unlock
    \/ transfer_get_chain_head
    \/ transfer_gather
    \/ transfer_fee
    \/ transfer_check_balance
    \/ transfer_prompt
    \/ transfer_submit
    \/ transfer_report

\* ================================================ sign_and_send_extrinsic
\* SubtensorInterface.sign_and_send_extrinsic(call, wallet,
\*     wait_for_inclusion, wait_for_finalization) -> (success, err_msg):
\* signs the call with the coldkey, submits it once, and reads the response
\* only when a wait flag is set

sign_and_send_extrinsic(wait_for_inclusion, wait_for_finalization, outcome) ==
    IF ~wait_for_finalization /\ ~wait_for_inclusion
    THEN TRUE
    ELSE outcome = "success"

sign_and_send_log(call, wfi, wff, outcome) ==
    <<Ev("create_signed_extrinsic", -1, call), Ev("submit_extrinsic", -1, call)>>
    \o (IF outcome # "error" /\ (wfi \/ wff)
        THEN <<Ev("process_events", -1, call)>> ELSE <<>>)

\* ====================================================== delegate_extrinsic
\* delegate_extrinsic(subtensor, wallet, delegate_ss58, amount,
\*                    wait_for_inclusion, wait_for_finalization, prompt,
\*                    delegate)

\* lines 600-612: the staking balance.  Balance.from_tao(balance.tao) gives
\* the balance back
staking_balance_of(amount_is_none, amount, balance, delegate) ==
    LET base == IF amount_is_none THEN balance ELSE from_tao(amount)
    IN  IF delegate /\ BalGt(base, from_rao(B1K))
        THEN BalSub(base, from_rao(B1K))
        ELSE base

\* _do_delegation (525-538): the call composed, carrying amount.rao
delegation_call(delegate, amount_rao) ==
    IF delegate THEN Call("add_stake", amount_rao)
                ELSE Call("remove_stake", amount_rao)

\* line 573, "if not subtensor.is_hotkey_delegate(delegate_ss58)": the value
\* tested is the coroutine object, whatever the chain holds for the hotkey
is_hotkey_delegate_tested(hotkey_is_delegate) == unawaited_coroutine_is_true

delegate_start ==
    /\ pc = "idle"
    /\ \E a \in DelegateAmounts, none \in BOOLEAN, wfi \in BOOLEAN,
          wff \in BOOLEAN, p \in BOOLEAN, d \in BOOLEAN, hd \in BOOLEAN :
           /\ none => a = 0
           /\ args' = [NoArgs EXCEPT !.amount = a, !.amount_is_none = none,
                                     !.wait_for_inclusion = wfi,
                                     !.wait_for_finalization = wff,
                                     !.prompt = p, !.delegate = d,
                                     !.hotkey_is_delegate = hd]
    /\ flow' = "delegate"
    /\ pc' = "unlock"
    /\ loc' = NoLoc
    /\ result' = "none"
    /\ log' = <<>>
    /\ UNCHANGED chain

\* lines 571-575: unlock the coldkey; "if not subtensor.is_hotkey_delegate(
\* delegate_ss58)" tests the coroutine object, no query is made
delegate_unlock ==
    /\ At("delegate", "unlock")
    /\ Logged(Ev("unlock_coldkey", -1, NoCall))
    /\ \E ok \in BOOLEAN :
           IF ~ok THEN Return("raise")
           ELSE IF ~is_hotkey_delegate_tested(args.hotkey_is_delegate)
           THEN Return("False")
           ELSE Goto("head")
    /\ UNCHANGED <<flow, args, loc, chain>>

\* line 581: initial_block_hash = get_chain_head()
delegate_get_chain_head ==
    /\ At("delegate", "head")
    /\ loc' = [loc EXCEPT !.block_hash = head]
    /\ Logged(Ev("get_chain_head", -1, NoCall))
    /\ Goto("gather")
    /\ UNCHANGED <<flow, args, chain>>

\* lines 582-598: balance and hotkey owner at initial_block_hash; the
\* Stake query of get_stake_for_coldkey_and_hotkey is not awaited
delegate_gather ==
    /\ At("delegate", "gather")
    /\ loc' = [loc EXCEPT !.account_balance = balance_at[loc.block_hash]]
    /\ \E hotkey_exists \in BOOLEAN :
           log' = log \o <<Ev("get_balance", loc.block_hash, NoCall),
                           Ev("does_hotkey_exist", loc.block_hash, NoCall)>>
                      \o (IF hotkey_exists
                          THEN <<Ev("query", loc.block_hash, NoCall)>>
                          ELSE <<>>)
    /\ Goto("check")
    /\ UNCHANGED <<flow, args, chain>>

delegate_check_stake_only ==
    /\ At("delegate", "check")
    /\ LET sb == staking_balance_of(args.amount_is_none, from_rao(args.amount),
                                    loc.account_balance, args.delegate)
       IN  /\ loc' = [loc EXCEPT !.staking_balance = sb]
           /\ IF args.delegate /\ BalGt(sb, loc.account_balance)
              THEN Return("False")
              ELSE Goto("prompt")
    /\ UNCHANGED <<flow, args, log, chain>>

\* lines 600-622: the staking balance and the balance check
delegate_check ==
    /\ At("delegate", "check")
    /\ LET sb == staking_balance_of(args.amount_is_none, from_rao(args.amount),
                                    loc.account_balance, args.delegate)
       IN  /\ loc' = [loc EXCEPT !.staking_balance = sb]
           /\ IF BalGt(sb, loc.account_balance)
              THEN Return("False")
              ELSE Goto("prompt")
    /\ UNCHANGED <<flow, args, log, chain>>

delegate_prompt_ignored ==
    /\ At("delegate", "prompt")
    /\ IF args.prompt
       THEN /\ Logged(Ev("Confirm.ask", -1, NoCall))
            /\ \E answer \in BOOLEAN :
                   /\ loc' = [loc EXCEPT !.confirmed = answer]
                   /\ Goto("submit")
       ELSE /\ Goto("submit")
            /\ UNCHANGED <<loc, log>>
    /\ UNCHANGED <<flow, args, chain>>

\* lines 624-632: ask before moving on
delegate_prompt ==
    /\ At("delegate", "prompt")
    /\ IF args.prompt
       THEN /\ Logged(Ev("Confirm.ask", -1, NoCall))
            /\ \E answer \in BOOLEAN :
                   /\ loc' = [loc EXCEPT !.confirmed = answer]
                   /\ IF answer THEN Goto("submit") ELSE Return("False")
       ELSE /\ Goto("submit")
            /\ UNCHANGED <<loc, log>>
    /\ UNCHANGED <<flow, args, chain>>

\* lines 634-642, 667-669 and _do_delegation (525-541); with amount None,
\* amount.rao raises before anything is composed
delegate_do_delegation ==
    /\ At("delegate", "submit")
    /\ IF args.amount_is_none
       THEN /\ Return("raise")
            /\ UNCHANGED <<loc, log>>
       ELSE \E outcome \in Outcomes :
            LET call == delegation_call(args.delegate, args.amount)
                ok == sign_and_send_extrinsic(args.wait_for_inclusion,
                                              args.wait_for_finalization,
                                              outcome)
            IN  /\ log' = log \o <<Ev("compose_call", -1, call)>>
                              \o sign_and_send_log(call, args.wait_for_inclusion,
                                                   args.wait_for_finalization,
                                                   outcome)
                /\ loc' = [loc EXCEPT !.outcome = outcome, !.success = ok,
                                       !.submitted = TRUE, !.call = call]
                /\ IF outcome = "error" THEN Return("raise")
                   ELSE IF ~ok THEN Return("False")
                   ELSE IF ~args.wait_for_finalization
                           /\ ~args.wait_for_inclusion THEN Return("True")
                   ELSE Goto("report")
    /\ UNCHANGED <<flow, args, chain>>

\* lines 644-666: re-query the balance at a new chain head
delegate_report ==
    /\ At("delegate", "report")
    /\ log' = log \o <<Ev("get_chain_head", -1, NoCall),
                       Ev("get_balance", head, NoCall)>>
    /\ Return("True")
    /\ UNCHANGED <<flow, args, loc, chain>>

delegate_extrinsic ==
    \/ delegate_start
    \/ delegate_unlock
    \/ delegate_get_chain_head
    \/ delegate_gather
    \/ delegate_check
    \/ delegate_prompt
    \/ delegate_do_delegation
    \/ delegate_report

\* =============================================== burned_register_extrinsic
\* burned_register_extrinsic(subtensor, wallet, netuid, recycle_amount,
\*                           old_balance, wait_for_inclusion,
\*                           wait_for_finalization, prompt)

already_registered_ignored(neuron_is_null) == FALSE

\* "if not neuron.is_null": the hotkey already has a neuron on the subnet
already_registered(neuron_is_null) == ~neuron_is_null

burned_register_start ==
    /\ pc = "idle"
    /\ \E p \in BOOLEAN, e \in BOOLEAN :
           args' = [NoArgs EXCEPT !.prompt = p, !.subnet_exists = e,
                                  !.wait_for_finalization = TRUE]
    /\ flow' = "burned_register"
    /\ pc' = "subnet"
    /\ loc' = NoLoc
    /\ result' = "none"
    /\ log' = <<>>
    /\ UNCHANGED chain

\* lines 305-311: "if not subtensor.subnet_exists(netuid)" tests the
\* coroutine object, no query is made; then the coldkey is unlocked
burned_register_subnet ==
    /\ At("burned_register", "subnet")
    /\ IF ~unawaited_coroutine_is_true
       THEN /\ Return("False")
            /\ UNCHANGED log
       ELSE /\ Logged(Ev("unlock_coldkey", -1, NoCall))
            /\ \E ok \in BOOLEAN :
                   IF ok THEN Goto("check") ELSE Return("raise")
    /\ UNCHANGED <<flow, args, loc, chain>>

\* lines 313-334: the hotkey's uid and neuron on the subnet
burned_register_check ==
    /\ At("burned_register", "check")
    /\ log' = log \o <<Ev("query", -1, NoCall),
                       Ev("neuron_for_uid", head, NoCall)>>
    /\ \E neuron_is_null \in BOOLEAN :
           /\ loc' = [loc EXCEPT !.neuron_is_null = neuron_is_null]
           /\ IF already_registered(neuron_is_null)
              THEN Return("True")
              ELSE Goto("prompt")
    /\ UNCHANGED <<flow, args, chain>>

\* lines 336-339: ask before recycling
burned_register_prompt ==
    /\ At("burned_register", "prompt")
    /\ IF args.prompt
       THEN /\ Logged(Ev("Confirm.ask", -1, NoCall))
            /\ \E answer \in BOOLEAN :
                   /\ loc' = [loc EXCEPT !.confirmed = answer]
                   /\ IF answer THEN Goto("submit") ELSE Return("False")
       ELSE /\ Goto("submit")
            /\ UNCHANGED <<loc, log>>
    /\ UNCHANGED <<flow, args, chain>>

\* lines 341-352: the call is composed; "success, err_msg =
\* subtensor.sign_and_send_extrinsic(...)" is not awaited, so nothing is
\* signed or submitted and unpacking the coroutine object raises TypeError
burned_register_submit ==
    /\ At("burned_register", "submit")
    /\ Logged(Ev("compose_call", -1, Call("burned_register", 0)))
    /\ Return("raise")
    /\ UNCHANGED <<flow, args, loc, chain>>

burned_register_extrinsic ==
    \/ burned_register_start
    \/ burned_register_subnet
    \/ burned_register_check
    \/ burned_register_prompt
    \/ burned_register_submit

\* =================================================== vote_senate_extrinsic
\* vote_senate_extrinsic(subtensor, wallet, proposal_hash, proposal_idx,
\*                       vote, wait_for_inclusion, wait_for_finalization,
\*                       prompt)

\* lines 262-265: the hotkey is in ayes or in nays
has_voted(record) == record = "ayes" \/ record = "nays"

vote_senate_start ==
    /\ pc = "idle"
    /\ \E v \in BOOLEAN, p \in BOOLEAN, wfi \in BOOLEAN, wff \in BOOLEAN :
           args' = [NoArgs EXCEPT !.vote = v, !.prompt = p,
                                  !.wait_for_inclusion = wfi,
                                  !.wait_for_finalization = wff]
    /\ flow' = "vote_senate"
    /\ pc' = "prompt"
    /\ loc' = NoLoc
    /\ result' = "none"
    /\ log' = <<>>
    /\ UNCHANGED chain

\* lines 233-236: ask before casting
vote_senate_prompt ==
    /\ At("vote_senate", "prompt")
    /\ IF args.prompt
       THEN /\ Logged(Ev("Confirm.ask", -1, NoCall))
            /\ \E answer \in BOOLEAN :
                   /\ loc' = [loc EXCEPT !.confirmed = answer]
                   /\ IF answer THEN Goto("submit") ELSE Return("False")
       ELSE /\ Goto("submit")
            /\ UNCHANGED <<loc, log>>
    /\ UNCHANGED <<flow, args, chain>>

\* lines 238-257: compose the vote call, sign and send it
vote_senate_cast ==
    /\ At("vote_senate", "submit")
    /\ \E outcome \in Outcomes :
        LET call == Call("vote", IF args.vote THEN 1 ELSE 0)
            ok == sign_and_send_extrinsic(args.wait_for_inclusion,
                                          args.wait_for_finalization, outcome)
        IN  /\ log' = log \o <<Ev("compose_call", -1, call)>>
                          \o sign_and_send_log(call, args.wait_for_inclusion,
                                               args.wait_for_finalization,
                                               outcome)
            /\ loc' = [loc EXCEPT !.outcome = outcome, !.success = ok,
                                   !.submitted = TRUE, !.call = call]
            /\ IF outcome = "error" THEN Return("raise")
               ELSE IF ~ok THEN Return("False")
               ELSE Goto("verify")
    /\ UNCHANGED <<flow, args, chain>>

\* lines 259-275: re-query the vote data and look for the hotkey; with no
\* vote data, vote_data["ayes"] raises TypeError
vote_senate_verify ==
    /\ At("vote_senate", "verify")
    /\ Logged(Ev("query", -1, NoCall))
    /\ \E record \in VoteRecords :
           /\ loc' = [loc EXCEPT !.vote_record = record]
           /\ IF record = "none" THEN Return("raise")
              ELSE IF has_voted(record) THEN Return("True")
              ELSE Return("False")
    /\ UNCHANGED <<flow, args, chain>>

vote_senate_extrinsic ==
    \/ vote_senate_start
    \/ vote_senate_prompt
    \/ vote_senate_cast
    \/ vote_senate_verify

\* ====================================================== nominate_extrinsic
\* nominate_extrinsic(subtensor, wallet, wait_for_finalization,
\*                    wait_for_inclusion)

nominate_start ==
    /\ pc = "idle"
    /\ \E wfi \in BOOLEAN, wff \in BOOLEAN :
           args' = [NoArgs EXCEPT !.wait_for_inclusion = wfi,
                                  !.wait_for_finalization = wff]
    /\ flow' = "nominate"
    /\ pc' = "submit"
    /\ loc' = NoLoc
    /\ result' = "none"
    /\ log' = <<>>
    /\ UNCHANGED chain

\* lines 687-709: compose become_delegate, sign and send it, return success
nominate_submit ==
    /\ At("nominate", "submit")
    /\ \E outcome \in Outcomes :
        LET call == Call("become_delegate", 0)
            ok == sign_and_send_extrinsic(args.wait_for_inclusion,
                                          args.wait_for_finalization, outcome)
        IN  /\ log' = log \o <<Ev("compose_call", -1, call)>>
                          \o sign_and_send_log(call, args.wait_for_inclusion,
                                               args.wait_for_finalization,
                                               outcome)
            /\ loc' = [loc EXCEPT !.outcome = outcome, !.success = ok,
                                   !.submitted = TRUE, !.call = call]
            /\ IF outcome = "error" THEN Return("raise")
               ELSE IF ok THEN Return("True")
               ELSE Return("False")
    /\ UNCHANGED <<flow, args, chain>>

nominate_extrinsic ==
    \/ nominate_start
    \/ nominate_submit

\* ====================================================== set_take_extrinsic
\* set_take_extrinsic(subtensor, wallet, delegate_ss58, take,
\*                    wait_for_inclusion, wait_for_finalization)

\* int(x) of a fraction n / d: truncation towards zero
trunc_div(n, d) == IF n >= 0 THEN n \div d ELSE -((-n) \div d)

\* "take_u16 = int(take * 0xFFFF)" and
\* "current_take = int(float(delegate.take) * 65535.0)", take in thousandths
take_to_u16(take) == trunc_div(take * U16_MAX, 1000)

take_call_swapped(take_u16, current_is_none, current_take) ==
    IF ~current_is_none /\ take_u16 = current_take THEN ""
    ELSE IF current_is_none \/ current_take < take_u16 THEN "decrease_take"
    ELSE "increase_take"

\* lines 456-489: the call composed ("" when there is nothing to do)
take_call(take_u16, current_is_none, current_take) ==
    IF ~current_is_none /\ take_u16 = current_take THEN ""
    ELSE IF current_is_none \/ current_take < take_u16 THEN "increase_take"
    ELSE "decrease_take"

set_take_extrinsic_start ==
    /\ pc = "idle"
    /\ \E t \in TakeValues, wfi \in BOOLEAN, wff \in BOOLEAN :
           args' = [NoArgs EXCEPT !.take = t, !.wait_for_inclusion = wfi,
                                  !.wait_for_finalization = wff]
    /\ flow' = "set_take_extrinsic"
    /\ pc' = "get_delegate"
    /\ loc' = NoLoc
    /\ result' = "none"
    /\ log' = <<>>
    /\ UNCHANGED chain

\* lines 445-454 and _get_delegate_by_hotkey (414-424)
set_take_extrinsic_get_delegate ==
    /\ At("set_take_extrinsic", "get_delegate")
    /\ \E d \in DelegateInfos :
           loc' = [loc EXCEPT !.take_u16 = take_to_u16(args.take),
                              !.delegate = d,
                              !.current_take = IF d.none THEN 0
                                               ELSE take_to_u16(d.take)]
    /\ Logged(Ev("rpc_request", head, NoCall))
    /\ Goto("choose")
    /\ UNCHANGED <<flow, args, chain>>

\* lines 456-488: nothing to do, or compose increase_take / decrease_take
set_take_extrinsic_choose ==
    /\ At("set_take_extrinsic", "choose")
    /\ LET fn == take_call(loc.take_u16, loc.delegate.none, loc.current_take)
       IN  IF fn = ""
           THEN /\ Return("True")
                /\ UNCHANGED <<loc, log>>
           ELSE /\ loc' = [loc EXCEPT !.call = Call(fn, args.take)]
                /\ Logged(Ev("compose_call", -1, Call(fn, args.take)))
                /\ Goto("submit")
    /\ UNCHANGED <<flow, args, chain>>

\* _take_extrinsic (426-443) and lines 491-495
set_take_extrinsic_submit ==
    /\ At("set_take_extrinsic", "submit")
    /\ \E outcome \in Outcomes :
        LET ok == submission_success(args.wait_for_inclusion,
                                     args.wait_for_finalization, outcome)
        IN  /\ log' = log \o SubmitLog(loc.call, args.wait_for_inclusion,
                                       args.wait_for_finalization, outcome)
            /\ loc' = [loc EXCEPT !.outcome = outcome, !.success = ok,
                                   !.submitted = TRUE]
            /\ IF outcome = "error" THEN Return("raise")
               ELSE IF ok THEN Return("True")
               ELSE Return("False")
    /\ UNCHANGED <<flow, args, chain>>

set_take_extrinsic ==
    \/ set_take_extrinsic_start
    \/ set_take_extrinsic_get_delegate
    \/ set_take_extrinsic_choose
    \/ set_take_extrinsic_submit

\* ================================================================ set_take
\* set_take(wallet, subtensor, take): the command


\* "if take > 0.18"
take_exceeds_ceiling(take) == take > TAKE_CEILING

set_take_start ==
    /\ pc = "idle"
    /\ \E t \in TakeValues : args' = [NoArgs EXCEPT !.take = t]
    /\ flow' = "set_take"
    /\ pc' = "unlock"
    /\ loc' = NoLoc
    /\ result' = "none"
    /\ log' = <<>>
    /\ UNCHANGED chain

\* lines 1245-1249: unlock both keys, then enter the session
set_take_unlock ==
    /\ At("set_take", "unlock")
    /\ \E ok \in BOOLEAN :
           IF ok
           THEN /\ log' = log \o <<Ev("unlock_hotkey", -1, NoCall),
                                   Ev("unlock_coldkey", -1, NoCall),
                                   Ev("session_enter", -1, NoCall)>>
                /\ Goto("is_delegate")
           ELSE /\ Logged(Ev("unlock_hotkey", -1, NoCall))
                /\ Return("raise")
    /\ UNCHANGED <<flow, args, loc, chain>>

\* lines 1206-1211: is the hotkey a delegate
set_take_is_delegate ==
    /\ At("set_take", "is_delegate")
    /\ Logged(Ev("is_hotkey_delegate", -1, NoCall))
    /\ \E answer \in BOOLEAN :
           /\ loc' = [loc EXCEPT !.is_delegate = answer, !.success = FALSE]
           /\ IF ~answer THEN Goto("exit") ELSE Goto("do_set_take")
    /\ UNCHANGED <<flow, args, chain>>

\* lines 1213-1243: the ceiling, the (unawaited) extrinsic, the re-check
set_take_do_set_take ==
    /\ At("set_take", "do_set_take")
    /\ IF take_exceeds_ceiling(args.take)
       THEN /\ loc' = [loc EXCEPT !.success = FALSE]
            /\ UNCHANGED log
       ELSE IF ~unawaited_coroutine_is_true
       THEN /\ loc' = [loc EXCEPT !.success = FALSE]
            /\ UNCHANGED log
       ELSE /\ Logged(Ev("is_hotkey_delegate", -1, NoCall))
            /\ \E answer \in BOOLEAN :
                   loc' = [loc EXCEPT !.is_delegate = answer,
                                      !.success = answer]
    /\ Goto("exit")
    /\ UNCHANGED <<flow, args, chain>>

\* lines 1249-1253: leave the session, close, return result_
set_take_exit ==
    /\ At("set_take", "exit")
    /\ log' = log \o <<Ev("session_exit", -1, NoCall),
                       Ev("substrate.close", -1, NoCall)>>
    /\ Return(IF loc.success THEN "True" ELSE "False")
    /\ UNCHANGED <<flow, args, loc, chain>>

set_take ==
    \/ set_take_start
    \/ set_take_unlock
    \/ set_take_is_delegate
    \/ set_take_do_set_take
    \/ set_take_exit

\* ============================================================ the session
\* "async with subtensor:" connects when the block is entered and
\* disconnects when it is left, by its end, by a return or by an exception;
\* subtensor.substrate.close() disconnects as well

session_enter == <<Ev("session_enter", -1, NoCall)>>

session_exit == <<Ev("session_exit", -1, NoCall)>>

substrate_close == <<Ev("substrate.close", -1, NoCall)>>

\* an extrinsic flow is called from a command: the command's frame is kept
\* in args.caller and the flow starts with its own locals and call log
CallFrom(name, made, callee, at, a) ==
    /\ flow' = callee
    /\ pc' = at
    /\ args' = [a EXCEPT !.caller = [name |-> name, log |-> made, loc |-> loc]]
    /\ loc' = NoLoc
    /\ log' = <<>>
    /\ result' = "none"

\* the called flow has ended: back in the command's frame
Returned(name, callee) ==
    /\ flow = callee
    /\ pc = "done"
    /\ args.caller.name = name

\* ============================================================= senate_vote
\* senate_vote(wallet, subtensor, proposal_hash): the command

\* what the SenateMembers.Members query answers about the wallet's hotkey
MemberAnswers == {"member", "not_member", "not_a_list", "unserializable"}

\* _get_senate_members (89-108) and _is_senate_member (151-171)
_is_senate_member(answer) ==
    CASE answer = "unserializable" -> "raise"
      [] answer = "not_a_list" -> "False"
      [] answer = "member" -> "True"
      [] OTHER -> "False"

senate_vote_start ==
    /\ pc = "idle"
    /\ \E h \in BOOLEAN : args' = [NoArgs EXCEPT !.proposal_hash = h]
    /\ flow' = "senate_vote"
    /\ pc' = "hash"
    /\ loc' = NoLoc
    /\ result' = "none"
    /\ log' = <<>>
    /\ UNCHANGED chain

\* lines 995-1001: no proposal hash, no session
senate_vote_hash ==
    /\ At("senate_vote", "hash")
    /\ IF ~args.proposal_hash
       THEN /\ Return("False")
            /\ UNCHANGED log
       ELSE /\ log' = log \o session_enter
            /\ Goto("member")
    /\ UNCHANGED <<flow, args, loc, chain>>

senate_vote_is_member_no_gate ==
    /\ At("senate_vote", "member")
    /\ \E answer \in MemberAnswers :
           /\ loc' = [loc EXCEPT !.senate_member = _is_senate_member(answer)]
           /\ log' = log \o <<Ev("query", -1, Call("SenateMembers", 0))>>
           /\ Goto("unlock")
    /\ UNCHANGED <<flow, args, chain>>

\* lines 1002-1008: the membership query; a non-member leaves the block
senate_vote_is_member ==
    /\ At("senate_vote", "member")
    /\ \E answer \in MemberAnswers :
           LET member == _is_senate_member(answer)
           IN  /\ loc' = [loc EXCEPT !.senate_member = member]
               /\ IF member = "True"
                  THEN /\ log' = log \o <<Ev("query", -1,
                                             Call("SenateMembers", 0))>>
                       /\ Goto("unlock")
                  ELSE /\ log' = log \o <<Ev("query", -1,
                                             Call("SenateMembers", 0))>>
                                     \o session_exit
                       /\ Return(member)
    /\ UNCHANGED <<flow, args, chain>>

\* lines 1011-1012: unlock the hotkey, then the coldkey
senate_vote_unlock ==
    /\ At("senate_vote", "unlock")
    /\ \E ok \in BOOLEAN :
           IF ok
           THEN /\ log' = log \o <<Ev("unlock_hotkey", -1, NoCall),
                                   Ev("unlock_coldkey", -1, NoCall)>>
                /\ Goto("vote_data")
           ELSE /\ log' = log \o <<Ev("unlock_hotkey", -1, NoCall)>>
                          \o session_exit
                /\ Return("raise")
    /\ UNCHANGED <<flow, args, loc, chain>>

\* lines 1014-1017 and _get_vote_data (174-203): the proposal's vote data
senate_vote_get_vote_data ==
    /\ At("senate_vote", "vote_data")
    /\ \E found \in BOOLEAN :
           IF found
           THEN /\ log' = log \o <<Ev("query", -1, Call("Voting", 0))>>
                /\ Goto("desired_vote")
           ELSE /\ log' = log \o <<Ev("query", -1, Call("Voting", 0))>>
                          \o session_exit
                /\ Return("False")
    /\ UNCHANGED <<flow, args, loc, chain>>

\* lines 1019-1029: ask for the vote, then call vote_senate_extrinsic with
\* wait_for_inclusion=True, wait_for_finalization=False, prompt=True
senate_vote_desired_vote ==
    /\ At("senate_vote", "desired_vote")
    /\ \E vote \in BOOLEAN :
           CallFrom("senate_vote",
                    log \o <<Ev("Confirm.ask", -1, Call("Desired vote", 0))>>,
                    "vote_senate", "prompt",
                    [args EXCEPT !.vote = vote, !.prompt = TRUE,
                                 !.wait_for_inclusion = TRUE,
                                 !.wait_for_finalization = FALSE])
    /\ UNCHANGED chain

\* lines 1029-1032: the block is left; after a return of the extrinsic the
\* connection is closed and its result returned
senate_vote_exit ==
    /\ Returned("senate_vote", "vote_senate")
    /\ flow' = "senate_vote"
    /\ log' = args.caller.log \o log \o session_exit
                  \o (IF result = "raise" THEN <<>> ELSE substrate_close)
    /\ loc' = args.caller.loc
    /\ args' = [args EXCEPT !.caller = NoCaller]
    /\ UNCHANGED <<pc, result, chain>>

senate_vote ==
    \/ senate_vote_start
    \/ senate_vote_hash
    \/ senate_vote_is_member
    \/ senate_vote_unlock
    \/ senate_vote_get_vote_data
    \/ senate_vote_desired_vote
    \/ senate_vote_exit

\* ================================================================ register
\* register(wallet, subtensor, netuid): the command

register_start ==
    /\ pc = "idle"
    /\ flow' = "register"
    /\ pc' = "subnet"
    /\ args' = NoArgs
    /\ loc' = NoLoc
    /\ result' = "none"
    /\ log' = <<>>
    /\ UNCHANGED chain

\* lines 1079-1083: enter the session; the subnet must exist
register_subnet ==
    /\ At("register", "subnet")
    /\ \E exists \in BOOLEAN :
           IF exists
           THEN /\ log' = log \o session_enter
                              \o <<Ev("subnet_exists", -1, NoCall)>>
                /\ Goto("gather")
           ELSE /\ log' = log \o session_enter
                              \o <<Ev("subnet_exists", -1, NoCall)>>
                              \o session_exit
                /\ Return("False")
    /\ UNCHANGED <<flow, args, loc, chain>>

\* lines 1086-1100: the recycle cost and the balance; a cost that cannot
\* be read returns False
register_gather ==
    /\ At("register", "gather")
    /\ \E known \in BOOLEAN, r \in RecycleValues :
           IF known
           THEN /\ loc' = [loc EXCEPT !.current_recycle = from_rao(r),
                                      !.account_balance = balance_at[head]]
                /\ log' = log \o <<Ev("get_hyperparameter", -1, NoCall),
                                   Ev("get_balance", -1, NoCall)>>
                /\ Goto("check")
           ELSE /\ log' = log \o <<Ev("get_hyperparameter", -1, NoCall),
                                   Ev("get_balance", -1, NoCall)>>
                              \o session_exit
                /\ Return("False")
                /\ UNCHANGED loc
    /\ UNCHANGED <<flow, args, chain>>

\* lines 1103-1108: the balance must cover the recycle cost
register_check ==
    /\ At("register", "check")
    /\ IF BalLt(loc.account_balance, loc.current_recycle)
       THEN /\ log' = log \o session_exit
            /\ Return("False")
       ELSE /\ Goto("prompt")
            /\ UNCHANGED log
    /\ UNCHANGED <<flow, args, loc, chain>>

\* lines 1111-1130: ask, then call burned_register_extrinsic with
\* wait_for_inclusion=False, wait_for_finalization=True, prompt=True
register_prompt ==
    /\ At("register", "prompt")
    /\ \E answer \in BOOLEAN :
           IF answer
           THEN /\ CallFrom("register",
                            log \o <<Ev("Confirm.ask", -1, Call("register", 0))>>,
                            "burned_register", "subnet",
                            [args EXCEPT !.prompt = TRUE,
                                         !.subnet_exists = TRUE,
                                         !.wait_for_inclusion = FALSE,
                                         !.wait_for_finalization = TRUE])
           ELSE /\ log' = log \o <<Ev("Confirm.ask", -1, Call("register", 0))>>
                              \o session_exit
                /\ Return("False")
                /\ UNCHANGED <<flow, args, loc>>
    /\ UNCHANGED chain

\* lines 1130-1132: the block is left and the connection closed
register_exit ==
    /\ Returned("register", "burned_register")
    /\ flow' = "register"
    /\ log' = args.caller.log \o log \o session_exit
                  \o (IF result = "raise" THEN <<>> ELSE substrate_close)
    /\ loc' = args.caller.loc
    /\ args' = [args EXCEPT !.caller = NoCaller]
    /\ result' = IF result = "raise" THEN "raise" ELSE "None"
    /\ UNCHANGED <<pc, chain>>

register ==
    \/ register_start
    \/ register_subnet
    \/ register_gather
    \/ register_check
    \/ register_prompt
    \/ register_exit

\* ================================================================ nominate
\* nominate(wallet, subtensor): the command

nominate_begin ==
    /\ pc = "idle"
    /\ flow' = "nominate_command"
    /\ pc' = "unlock"
    /\ args' = NoArgs
    /\ loc' = NoLoc
    /\ result' = "none"
    /\ log' = <<>>
    /\ UNCHANGED chain

\* lines 1602-1606: unlock both keys, then enter the session
nominate_unlock ==
    /\ At("nominate_command", "unlock")
    /\ \E ok \in BOOLEAN :
           IF ok
           THEN /\ log' = log \o <<Ev("unlock_hotkey", -1, NoCall),
                                   Ev("unlock_coldkey", -1, NoCall)>>
                              \o session_enter
                /\ Goto("is_delegate")
           ELSE /\ log' = log \o <<Ev("unlock_hotkey", -1, NoCall)>>
                /\ Return("raise")
    /\ UNCHANGED <<flow, args, loc, chain>>

\* lines 1608-1615: a hotkey that is a delegate already returns; otherwise
\* nominate_extrinsic is called with its default wait flags
nominate_is_delegate ==
    /\ At("nominate_command", "is_delegate")
    /\ \E answer \in BOOLEAN :
           IF answer
           THEN /\ log' = log \o <<Ev("is_hotkey_delegate", -1, NoCall)>>
                              \o session_exit
                /\ Return("None")
                /\ UNCHANGED <<flow, args, loc>>
           ELSE CallFrom("nominate_command",
                         log \o <<Ev("is_hotkey_delegate", -1, NoCall)>>,
                         "nominate", "submit",
                         [args EXCEPT !.wait_for_inclusion = TRUE,
                                      !.wait_for_finalization = FALSE])
    /\ UNCHANGED chain

\* lines 1616-1642: a failed nomination returns; after a success
\* "is_delegate = subtensor.is_hotkey_delegate(...)" is the coroutine object,
\* the identity prompt follows, the block is left and the connection closed
nominate_exit ==
    /\ Returned("nominate_command", "nominate")
    /\ flow' = "nominate_command"
    /\ loc' = args.caller.loc
    /\ args' = [args EXCEPT !.caller = NoCaller]
    /\ IF result = "raise"
       THEN /\ log' = args.caller.log \o log \o session_exit
            /\ result' = "raise"
       ELSE IF result = "False" \/ ~unawaited_coroutine_is_true
       THEN /\ log' = args.caller.log \o log \o session_exit
            /\ result' = "None"
       ELSE \E do_set_identity \in BOOLEAN, set_id_ok \in BOOLEAN :
            IF do_set_identity /\ ~set_id_ok
            THEN /\ log' = args.caller.log \o log
                               \o <<Ev("Confirm.ask", -1, Call("identity", 0)),
                                    Ev("set_id", -1, NoCall)>>
                               \o session_exit
                 /\ result' = "raise"
            ELSE /\ log' = args.caller.log \o log
                               \o <<Ev("Confirm.ask", -1, Call("identity", 0))>>
                               \o (IF do_set_identity
                                   THEN <<Ev("set_id", -1, NoCall)>> ELSE <<>>)
                               \o session_exit \o substrate_close
                 /\ result' = "None"
    /\ UNCHANGED <<pc, chain>>

nominate ==
    \/ nominate_begin
    \/ nominate_unlock
    \/ nominate_is_delegate
    \/ nominate_exit

\* ========================================== delegate_stake, delegate_unstake
\* delegate_stake(wallet, subtensor, amount, delegate_ss58key) and
\* delegate_unstake(wallet, subtensor, amount, delegate_ss58key): the commands

\* lines 1264-1273: enter the session and call delegate_extrinsic with
\* Balance.from_tao(amount), wait_for_inclusion=True, prompt=True,
\* delegate=True
delegate_stake_start ==
    /\ pc = "idle"
    /\ \E a \in DelegateAmounts, hd \in BOOLEAN :
           CallFrom("delegate_stake", session_enter, "delegate", "unlock",
                    [NoArgs EXCEPT !.amount = a, !.wait_for_inclusion = TRUE,
                                   !.wait_for_finalization = FALSE,
                                   !.prompt = TRUE, !.delegate = TRUE,
                                   !.hotkey_is_delegate = hd])
    /\ UNCHANGED chain

\* lines 1273-1274: the block is left and the connection closed
delegate_stake_exit ==
    /\ Returned("delegate_stake", "delegate")
    /\ flow' = "delegate_stake"
    /\ log' = args.caller.log \o log \o session_exit
                  \o (IF result = "raise" THEN <<>> ELSE substrate_close)
    /\ loc' = args.caller.loc
    /\ args' = [args EXCEPT !.caller = NoCaller]
    /\ result' = IF result = "raise" THEN "raise" ELSE "None"
    /\ UNCHANGED <<pc, chain>>

delegate_stake ==
    \/ delegate_stake_start
    \/ delegate_stake_exit

\* lines 1284-1293: as delegate_stake, with delegate=False
delegate_unstake_start ==
    /\ pc = "idle"
    /\ \E a \in DelegateAmounts, hd \in BOOLEAN :
           CallFrom("delegate_unstake", session_enter, "delegate", "unlock",
                    [NoArgs EXCEPT !.amount = a, !.wait_for_inclusion = TRUE,
                                   !.wait_for_finalization = FALSE,
                                   !.prompt = TRUE, !.delegate = FALSE,
                                   !.hotkey_is_delegate = hd])
    /\ UNCHANGED chain

\* lines 1293-1294: the block is left and the connection closed
delegate_unstake_exit ==
    /\ Returned("delegate_unstake", "delegate")
    /\ flow' = "delegate_unstake"
    /\ log' = args.caller.log \o log \o session_exit
                  \o (IF result = "raise" THEN <<>> ELSE substrate_close)
    /\ loc' = args.caller.loc
    /\ args' = [args EXCEPT !.caller = NoCaller]
    /\ result' = IF result = "raise" THEN "raise" ELSE "None"
    /\ UNCHANGED <<pc, chain>>

delegate_unstake ==
    \/ delegate_unstake_start
    \/ delegate_unstake_exit

\* ========================================================= delegate registry
\* the cells the views fill from the registry

\* "delegate_info[hotkey].name if hotkey in delegate_info else """; with
\* delegate_info None the membership test raises TypeError
name_of(delegate_info, hotkey) ==
    IF delegate_info = "None" THEN "raise"
    ELSE IF delegate_info = "partial" /\ hotkey = "hk1" THEN "name"
    ELSE ""

\* display_votes (34-55): "... if address in delegate_info else address"
name_or_address(delegate_info, address) ==
    IF delegate_info = "None" THEN "raise"
    ELSE IF delegate_info = "partial" /\ address = "hk1" THEN "name"
    ELSE address

\* the name cells of a table with one row per hotkey
name_cells(delegate_info, hotkeys) ==
    [i \in 1..Len(hotkeys) |-> name_of(delegate_info, hotkeys[i])]

\* the entries of a vote list
vote_cells(delegate_info, hotkeys) ==
    [i \in 1..Len(hotkeys) |-> name_or_address(delegate_info, hotkeys[i])]

\* the loop over the rows ends with the first cell that raises
Raises(cells) == \E i \in 1..Len(cells) : cells[i] = "raise"

\* =============================================================== root_list
\* root_list(subtensor): the view
\* loc.blocks_read collects the blocks the view's chain reads were served
\* at: a read given no block hash is served at the head of that moment

root_list_start ==
    /\ pc = "idle"
    /\ flow' = "root_list"
    /\ pc' = "senate"
    /\ args' = NoArgs
    /\ loc' = NoLoc
    /\ result' = "none"
    /\ log' = <<>>
    /\ UNCHANGED chain

\* lines 719-725: the senate members, read inside the session block
root_list_senate ==
    /\ At("root_list", "senate")
    /\ log' = log \o session_enter
                  \o <<Ev("query", -1, Call("SenateMembers", 0))>>
                  \o session_exit
    /\ loc' = [loc EXCEPT !.blocks_read = {head}]
    /\ \E ok \in BOOLEAN : IF ok THEN Goto("neurons") ELSE Return("raise")
    /\ UNCHANGED <<flow, args, chain>>

\* lines 727-729: the root neurons, read after the block was left; the
\* session either connects again for the call or refuses it
root_list_neurons ==
    /\ At("root_list", "neurons")
    /\ \/ /\ \E rn \in HotkeyLists :
                 loc' = [loc EXCEPT !.hotkeys = rn,
                                    !.blocks_read = @ \cup {head}]
          /\ log' = log \o <<Ev("neurons_lite", -1, NoCall)>>
          /\ IF loc'.hotkeys = <<>> THEN Goto("close") ELSE Goto("stakes")
       \/ /\ Return("raise")
          /\ UNCHANGED <<loc, log>>
    /\ UNCHANGED <<flow, args, chain>>

\* lines 731-740: the registry and the stakes of the neurons' hotkeys;
\* reuse_block_hash=True reads at the block hash the connection used last,
\* or at the head when it kept none
root_list_stakes ==
    /\ At("root_list", "stakes")
    /\ \E di \in RegistryAnswers, b \in loc.blocks_read \cup {head} :
           loc' = [loc EXCEPT !.delegate_info = di,
                              !.blocks_read = @ \cup {b}]
    /\ log' = log \o <<Ev("get_delegates_details_from_github", -1, NoCall),
                       Ev("query_multiple", -1, NoCall)>>
    /\ \E ok \in BOOLEAN : IF ok THEN Goto("close") ELSE Return("raise")
    /\ UNCHANGED <<flow, args, chain>>

\* lines 785-791: close the connection; without neurons the view exits
root_list_close ==
    /\ At("root_list", "close")
    /\ log' = log \o substrate_close
    /\ IF loc.hotkeys = <<>> THEN Return("Exit") ELSE Goto("render")
    /\ UNCHANGED <<flow, args, loc, chain>>

\* lines 793-808: one row per neuron
root_list_render ==
    /\ At("root_list", "render")
    /\ LET cells == name_cells(loc.delegate_info, loc.hotkeys)
       IN  IF Raises(cells)
           THEN /\ Return("raise")
                /\ UNCHANGED loc
           ELSE /\ loc' = [loc EXCEPT !.table = cells]
                /\ Return("None")
    /\ UNCHANGED <<flow, args, log, chain>>

root_list ==
    \/ root_list_start
    \/ root_list_senate
    \/ root_list_neurons
    \/ root_list_stakes
    \/ root_list_close
    \/ root_list_render

\* ============================================================== get_senate
\* get_senate(subtensor): the view

get_senate_start ==
    /\ pc = "idle"
    /\ flow' = "get_senate"
    /\ pc' = "members"
    /\ args' = NoArgs
    /\ loc' = NoLoc
    /\ result' = "none"
    /\ log' = <<>>
    /\ UNCHANGED chain

\* lines 1038-1045: the senate members inside the block, then the registry,
\* then the connection is closed
get_senate_fetch ==
    /\ At("get_senate", "members")
    /\ \/ /\ \E sm \in HotkeyLists, di \in RegistryAnswers :
                 loc' = [loc EXCEPT !.hotkeys = sm, !.delegate_info = di]
          /\ log' = log \o session_enter
                        \o <<Ev("query", -1, Call("SenateMembers", 0))>>
                        \o session_exit
                        \o <<Ev("get_delegates_details_from_github", -1,
                                NoCall)>>
                        \o substrate_close
          /\ Goto("render")
       \/ /\ log' = log \o session_enter
                        \o <<Ev("query", -1, Call("SenateMembers", 0))>>
                        \o session_exit
          /\ Return("raise")
          /\ UNCHANGED loc
    /\ UNCHANGED <<flow, args, chain>>

\* lines 1067-1073: one row per senate member
get_senate_render ==
    /\ At("get_senate", "render")
    /\ LET cells == name_cells(loc.delegate_info, loc.hotkeys)
       IN  IF Raises(cells)
           THEN /\ Return("raise")
                /\ UNCHANGED loc
           ELSE /\ loc' = [loc EXCEPT !.table = cells]
                /\ Return("None")
    /\ UNCHANGED <<flow, args, log, chain>>

get_senate ==
    \/ get_senate_start
    \/ get_senate_fetch
    \/ get_senate_render

\* =============================================================== proposals
\* proposals(subtensor): the view; the voters of the proposals are followed

proposals_start ==
    /\ pc = "idle"
    /\ flow' = "proposals"
    /\ pc' = "fetch"
    /\ args' = NoArgs
    /\ loc' = NoLoc
    /\ result' = "none"
    /\ log' = <<>>
    /\ UNCHANGED chain

\* lines 1141-1152: chain head, senate members and proposals at it, inside
\* the block; the connection is closed; then the registry
proposals_fetch ==
    /\ At("proposals", "fetch")
    /\ \/ /\ \E voters \in HotkeyLists, di \in RegistryAnswers :
                 loc' = [loc EXCEPT !.block_hash = head, !.hotkeys = voters,
                                    !.delegate_info = di,
                                    !.blocks_read = {head}]
          /\ log' = log \o session_enter
                        \o <<Ev("get_chain_head", -1, NoCall),
                             Ev("query", head, Call("SenateMembers", 0)),
                             Ev("query", head, Call("Proposals", 0)),
                             Ev("query", head, Call("ProposalOf", 0)),
                             Ev("query", head, Call("Voting", 0))>>
                        \o session_exit \o substrate_close
                        \o <<Ev("get_delegates_details_from_github", -1,
                                NoCall)>>
          /\ Goto("render")
       \/ /\ log' = log \o session_enter
                        \o <<Ev("get_chain_head", -1, NoCall),
                             Ev("query", head, Call("SenateMembers", 0))>>
                        \o session_exit
          /\ Return("raise")
          /\ UNCHANGED loc
    /\ UNCHANGED <<flow, args, chain>>

\* lines 1182-1195 and display_votes (34-55): one vote entry per voter
proposals_render ==
    /\ At("proposals", "render")
    /\ LET cells == vote_cells(loc.delegate_info, loc.hotkeys)
       IN  IF Raises(cells)
           THEN /\ Return("raise")
                /\ UNCHANGED loc
           ELSE /\ loc' = [loc EXCEPT !.table = cells]
                /\ Return("None")
    /\ UNCHANGED <<flow, args, log, chain>>

proposals ==
    \/ proposals_start
    \/ proposals_fetch
    \/ proposals_render

\* ========================================================== list_delegates
\* list_delegates(subtensor): the view

list_delegates_start ==
    /\ pc = "idle"
    /\ flow' = "list_delegates"
    /\ pc' = "fetch"
    /\ args' = NoArgs
    /\ loc' = NoLoc
    /\ result' = "none"
    /\ log' = <<>>
    /\ UNCHANGED chain

\* lines 1444-1464: chain head and registry, the delegates now and 1200
\* blocks ago, all inside the block; then the connection is closed
list_delegates_fetch ==
    /\ At("list_delegates", "fetch")
    /\ \/ /\ \E delegates \in HotkeyLists, di \in RegistryAnswers :
                 loc' = [loc EXCEPT !.block_hash = head,
                                    !.hotkeys = delegates,
                                    !.delegate_info = di]
          /\ log' = log \o session_enter
                        \o <<Ev("get_chain_head", -1, NoCall),
                             Ev("get_delegates_details_from_github", -1,
                                NoCall),
                             Ev("get_block_number", head, NoCall),
                             Ev("get_delegates", head, NoCall),
                             Ev("get_block_hash", -1, NoCall),
                             Ev("get_delegates", 0, NoCall)>>
                        \o session_exit \o substrate_close
          /\ Goto("render")
       \/ /\ log' = log \o session_enter
                        \o <<Ev("get_chain_head", -1, NoCall),
                             Ev("get_delegates_details_from_github", -1,
                                NoCall),
                             Ev("get_block_number", head, NoCall),
                             Ev("get_delegates", head, NoCall)>>
                        \o session_exit
          /\ Return("raise")
          /\ UNCHANGED loc
    /\ UNCHANGED <<flow, args, chain>>

\* lines 1526-1596: one row per delegate
list_delegates_render ==
    /\ At("list_delegates", "render")
    /\ LET cells == name_cells(loc.delegate_info, loc.hotkeys)
       IN  IF Raises(cells)
           THEN /\ Return("raise")
                /\ UNCHANGED loc
           ELSE /\ loc' = [loc EXCEPT !.table = cells]
                /\ Return("None")
    /\ UNCHANGED <<flow, args, log, chain>>

list_delegates ==
    \/ list_delegates_start
    \/ list_delegates_fetch
    \/ list_delegates_render

\* ============================================================ my_delegates
\* my_delegates(wallet, subtensor, all_wallets): the view

my_delegates_start ==
    /\ pc = "idle"
    /\ flow' = "my_delegates"
    /\ pc' = "fetch"
    /\ args' = NoArgs
    /\ loc' = NoLoc
    /\ result' = "none"
    /\ log' = <<>>
    /\ UNCHANGED chain

\* lines 1360-1377: chain head, the wallets' delegates at it and the
\* registry, inside the block; then the connection is closed
my_delegates_fetch ==
    /\ At("my_delegates", "fetch")
    /\ \/ /\ \E delegates \in HotkeyLists, di \in RegistryAnswers :
                 loc' = [loc EXCEPT !.block_hash = head,
                                    !.hotkeys = delegates,
                                    !.delegate_info = di]
          /\ log' = log \o session_enter
                        \o <<Ev("get_chain_head", -1, NoCall),
                             Ev("get_delegated", head, NoCall),
                             Ev("get_delegates_details_from_github", -1,
                                NoCall)>>
                        \o session_exit \o substrate_close
          /\ Goto("render")
       \/ /\ log' = log \o session_enter
                        \o <<Ev("get_chain_head", -1, NoCall),
                             Ev("get_delegated", head, NoCall)>>
                        \o session_exit
          /\ Return("raise")
          /\ UNCHANGED loc
    /\ UNCHANGED <<flow, args, chain>>

\* lines 1379-1437: one row per delegate the wallet has staked to
my_delegates_render ==
    /\ At("my_delegates", "render")
    /\ LET cells == name_cells(loc.delegate_info, loc.hotkeys)
       IN  IF Raises(cells)
           THEN /\ Return("raise")
                /\ UNCHANGED loc
           ELSE /\ loc' = [loc EXCEPT !.table = cells]
                /\ Return("None")
    /\ UNCHANGED <<flow, args, log, chain>>

my_delegates ==
    \/ my_delegates_start
    \/ my_delegates_fetch
    \/ my_delegates_render

\* ============================================================= get_weights
\* get_weights(subtensor): the command; the row of one uid is followed

RECURSIVE sum_vals(_)
\* np.sum(weights_data, axis=0)[1]
sum_vals(weights_data) ==
    IF weights_data = <<>> THEN 0
    ELSE Head(weights_data)[2] + sum_vals(Tail(weights_data))

denominator_unclamped(total) == total

\* max(np.sum(weights_data, axis=0)[1], 1)
denominator(total) == IF total > 1 THEN total ELSE 1

\* lines 850-856: the quotients val / denominator, as fractions
normalized_weights(weights_data) ==
    IF Len(weights_data) = 0 THEN <<>>
    ELSE [i \in 1..Len(weights_data) |->
             [num |-> weights_data[i][2],
              den |-> denominator(sum_vals(weights_data))]]

\* lines 858-864: uid_to_weights[uid], the last quotient zipped to a netuid
uid_weights(weights_data) ==
    LET nw == normalized_weights(weights_data)
        last(n) == CHOOSE i \in 1..Len(weights_data) :
                       /\ weights_data[i][1] = n
                       /\ \A j \in (i + 1)..Len(weights_data) :
                              weights_data[j][1] # n
    IN  [n \in {weights_data[i][1] : i \in 1..Len(weights_data)} |->
            nw[last(n)]]

get_weights_start ==
    /\ pc = "idle"
    /\ flow' = "get_weights"
    /\ pc' = "fetch"
    /\ args' = NoArgs
    /\ loc' = NoLoc
    /\ result' = "none"
    /\ log' = <<>>
    /\ UNCHANGED chain

\* lines 839-843: read the stored weights of the root network in a session
get_weights_fetch ==
    /\ At("get_weights", "fetch")
    /\ \/ /\ \E wd \in WeightLists : args' = [args EXCEPT !.weights_data = wd]
          /\ log' = log \o session_enter \o <<Ev("weights", -1, NoCall)>>
                        \o session_exit \o substrate_close
          /\ Goto("normalize")
       \/ /\ log' = log \o session_enter \o <<Ev("weights", -1, NoCall)>>
                        \o session_exit
          /\ Return("raise")
          /\ UNCHANGED args
    /\ UNCHANGED <<flow, loc, chain>>

\* lines 845-864: normalize the row
get_weights_normalize ==
    /\ At("get_weights", "normalize")
    /\ loc' = [loc EXCEPT !.uid_to_weights = uid_weights(args.weights_data),
                          !.divisions = IF Len(args.weights_data) = 0
                                        THEN 0 ELSE 1]
    /\ Goto("render")
    /\ UNCHANGED <<flow, args, log, chain>>

\* lines 866-901: print the table
get_weights_render ==
    /\ At("get_weights", "render")
    /\ Return("None")
    /\ UNCHANGED <<flow, args, loc, log, chain>>

get_weights ==
    \/ get_weights_start
    \/ get_weights_fetch
    \/ get_weights_normalize
    \/ get_weights_render

\* ================================================== set_boost and set_slash
\* set_boost(wallet, subtensor, netuid, amount) and set_slash(...): the
\* commands

\* amounts a caller may boost or slash by
BoostAmounts == {1, 5}

\* the stored weight of a netuid, 0 when the row holds none
weight_of(weights_data, netuid) ==
    IF \E i \in 1..Len(weights_data) : weights_data[i][1] = netuid
    THEN weights_data[CHOOSE i \in 1..Len(weights_data) :
                          weights_data[i][1] = netuid][2]
    ELSE 0

\* "new_weight = prev_weight + amount"
boosted(prev_weight, amount) == prev_weight + amount

\* "my_weights[netuid] -= amount; my_weights[my_weights < 0] = 0"
slashed(prev_weight, amount) ==
    IF prev_weight - amount < 0 THEN 0 ELSE prev_weight - amount

\* _get_my_weights (904-931): the hotkey's uid, its weights and the number
\* of subnets are queried inside a session block of its own; with an empty
\* row "uids, values = zip(*my_weights)" raises ValueError.  Of the weight
\* array the entry of the command's netuid is followed
_get_my_weights(command) ==
    /\ At(command, "my_weights")
    /\ \/ /\ \E wd \in WeightLists :
                 /\ loc' = [loc EXCEPT
                                !.prev_weight = weight_of(wd, args.netuid)]
                 /\ IF wd = <<>> THEN Return("raise")
                                 ELSE Goto("set_root_weights")
          /\ log' = log \o session_enter
                        \o <<Ev("query", -1, Call("Uids", 0)),
                             Ev("query", -1, Call("Weights", 0)),
                             Ev("query", -1, Call("TotalNetworks", 0))>>
                        \o session_exit
       \/ /\ log' = log \o session_enter
                        \o <<Ev("query", -1, Call("Uids", 0))>>
                        \o session_exit
          /\ Return("raise")
          /\ UNCHANGED loc
    /\ UNCHANGED <<flow, args, chain>>

\* set_root_weights_extrinsic(subtensor, wallet, netuids, weights,
\* version_key, wait_for_inclusion=True, wait_for_finalization=True,
\* prompt=True), called with the new weight of the netuid: ask, then compose,
\* sign and submit; on a connection the session has left the submission
\* either connects again or is refused.  The commands drop its return value
set_root_weights_extrinsic(command, new_weight) ==
    /\ At(command, "set_root_weights")
    /\ \/ /\ Logged(Ev("Confirm.ask", -1, NoCall))
          /\ loc' = [loc EXCEPT !.confirmed = FALSE]
          /\ Goto("close")
       \/ \E outcome \in Outcomes :
              LET call == Call("set_root_weights", new_weight)
              IN  /\ log' = log \o <<Ev("Confirm.ask", -1, NoCall),
                                     Ev("compose_call", -1, call)>>
                                \o sign_and_send_log(call, TRUE, TRUE, outcome)
                  /\ loc' = [loc EXCEPT !.confirmed = TRUE, !.call = call]
                  /\ IF outcome = "error" THEN Return("raise")
                                          ELSE Goto("close")
       \/ /\ Logged(Ev("Confirm.ask", -1, NoCall))
          /\ loc' = [loc EXCEPT !.confirmed = TRUE]
          /\ Return("raise")
    /\ UNCHANGED <<flow, args, chain>>

set_boost_start ==
    /\ pc = "idle"
    /\ flow' = "set_boost"
    /\ pc' = "my_weights"
    /\ \E netuid \in 1..MaxWeights, amount \in BoostAmounts :
           args' = [NoArgs EXCEPT !.netuid = netuid, !.amount = amount]
    /\ loc' = NoLoc
    /\ result' = "none"
    /\ log' = <<>>
    /\ UNCHANGED chain

\* lines 939-960: the boosted weight, submitted with the others
set_boost_set_root_weights ==
    set_root_weights_extrinsic("set_boost", boosted(loc.prev_weight, args.amount))

\* line 961: close the connection
set_boost_close ==
    /\ At("set_boost", "close")
    /\ log' = log \o substrate_close
    /\ Return("None")
    /\ UNCHANGED <<flow, args, loc, chain>>

set_boost ==
    \/ set_boost_start
    \/ _get_my_weights("set_boost")
    \/ set_boost_set_root_weights
    \/ set_boost_close

set_slash_start ==
    /\ pc = "idle"
    /\ flow' = "set_slash"
    /\ pc' = "my_weights"
    /\ \E netuid \in 1..MaxWeights, amount \in BoostAmounts :
           args' = [NoArgs EXCEPT !.netuid = netuid, !.amount = amount]
    /\ loc' = NoLoc
    /\ result' = "none"
    /\ log' = <<>>
    /\ UNCHANGED chain

\* lines 969-986: the slashed weight, not below zero, submitted with the
\* others
set_slash_set_root_weights ==
    set_root_weights_extrinsic("set_slash", slashed(loc.prev_weight, args.amount))

\* line 987: close the connection
set_slash_close ==
    /\ At("set_slash", "close")
    /\ log' = log \o substrate_close
    /\ Return("None")
    /\ UNCHANGED <<flow, args, loc, chain>>

set_slash ==
    \/ set_slash_start
    \/ _get_my_weights("set_slash")
    \/ set_slash_set_root_weights
    \/ set_slash_close

\* ===================================================== the specification

Next ==
    \/ ChainAdvance
    \/ flow_exit
    \/ transfer_extrinsic
    \/ set_take_extrinsic
    \/ set_take
    \/ delegate_extrinsic
    \/ burned_register_extrinsic
    \/ vote_senate_extrinsic
    \/ nominate_extrinsic
    \/ senate_vote
    \/ register
    \/ nominate
    \/ delegate_stake
    \/ delegate_unstake
    \/ root_list
    \/ get_senate
    \/ proposals
    \/ list_delegates
    \/ my_delegates
    \/ get_weights
    \/ set_boost
    \/ set_slash

Spec == Init /\ [][Next]_vars

\* ================================================================ claims

HasOp(o) == \E i \in 1..Len(log) : log[i].op = o

CountOp(o) == Cardinality({i \in 1..Len(log) : log[i].op = o})

\* session calls that sign or submit
WriteOps == {"create_signed_extrinsic", "submit_extrinsic"}

NoWrite == \A i \in 1..Len(log) : log[i].op \notin WriteOps

\* the balance check of transfer_extrinsic has been evaluated
TransferChecked ==
    /\ flow = "transfer"
    /\ HasOp("get_payment_info")
    /\ pc # "check"

\* the transfer went on after the balance check
TransferProceeded ==
    \/ pc \in {"prompt", "submit", "report"}
    \/ HasOp("Confirm.ask")
    \/ HasOp("compose_call") /\ CountOp("compose_call") > 1

\* balance >= n rao, for n below 10^9
AtLeastRao(balance, n) == balance.tao > 0 \/ balance.rao >= n

\* C1: transfer_extrinsic with a destination the validator answers false
\* for returns False at once: no wallet unlock, no chain read, no signing
\* and no submission happen in that invocation.
C1_InvalidDestinationAborts ==
    (flow = "transfer"
       /\ is_valid_bittensor_address_or_public_key(args.destination) = "False")
    => /\ log = <<>>
       /\ pc \in {"validate", "done"}
       /\ (pc = "done" => result = "False")

C1_Witness ==
    /\ flow = "transfer"
    /\ pc = "done"
    /\ args.destination = Dest("str", TRUE, 10, "ok")
    /\ result = "False"
    /\ log = <<>>

\* C2: once the balance check has run, balance < amount + fee + ED means
\* the flow returned False with nothing signed or submitted, and
\* balance >= amount + fee + ED (equality included) means it went on.
C2_BalanceCheck ==
    TransferChecked =>
        LET required == args.amount + loc.fee.rao + loc.existential_deposit.rao
        IN  IF AtLeastRao(loc.account_balance, required)
            THEN TransferProceeded
            ELSE pc = "done" /\ result = "False" /\ NoWrite
                 /\ ~TransferProceeded

\* balance 100 = amount 99 + fee 1 + ED 0: equality proceeds to submission
C2_Witness ==
    /\ TransferChecked
    /\ loc.account_balance = Bal(0, 100)
    /\ args.amount + loc.fee.rao + loc.existential_deposit.rao = 100
    /\ HasOp("submit_extrinsic")

\* C3: the existential deposit term is the chain's when keep_alive is true
\* and zero when it is false, so that with keep_alive false the transfer
\* goes on iff balance >= amount + fee, whatever the chain's deposit.
C3_KeepAlive ==
    TransferChecked =>
        /\ loc.existential_deposit.tao = 0
        /\ loc.existential_deposit.rao = (IF args.keep_alive THEN ed ELSE 0)
        /\ (~args.keep_alive =>
               (TransferProceeded <=>
                   AtLeastRao(loc.account_balance, args.amount + loc.fee.rao)))

\* keep_alive false, chain deposit 50, balance 100 = 99 + 1: submitted
C3_Witness ==
    /\ TransferChecked
    /\ ~args.keep_alive
    /\ ed = 50
    /\ loc.account_balance = Bal(0, 100)
    /\ args.amount = 99
    /\ HasOp("submit_extrinsic")

\* C4: when get_payment_info fails the fee is 20,000,000 rao, nothing is
\* raised by the fee estimate, and the flow goes to the balance check, which
\* decides with that fee.
C4_FeeFallback ==
    (flow = "transfer" /\ loc.payment_info_failed) =>
        /\ loc.fee = Bal(0, 20000000)
        /\ pc \in {"check", "prompt", "submit", "report", "done"}
        /\ (pc = "check" => result = "none")
        /\ (pc # "check" =>
               (TransferProceeded <=>
                   AtLeastRao(loc.account_balance,
                              args.amount + 20000000
                                  + loc.existential_deposit.rao)))

\* the fee query failed and the transfer was still submitted
C4_Witness ==
    /\ flow = "transfer"
    /\ loc.payment_info_failed
    /\ loc.account_balance = Bal(4999, 999999000)
    /\ HasOp("submit_extrinsic")

\* C5: with both wait flags false, do_transfer and _take_extrinsic report
\* success as soon as submit_extrinsic has returned, without process_events
\* and whatever the chain does with the extrinsic.
C5_FireAndForget ==
    (/\ flow \in {"transfer", "set_take_extrinsic"}
     /\ loc.submitted
     /\ loc.outcome # "error"
     /\ ~args.wait_for_inclusion
     /\ ~args.wait_for_finalization)
    => /\ loc.success
       /\ ~HasOp("process_events")
       /\ result # "False"
       /\ (flow = "set_take_extrinsic" => result = "True")

\* the chain rejects the transfer, and do_transfer has reported success
C5_Witness ==
    /\ flow = "transfer"
    /\ loc.submitted
    /\ loc.outcome = "failed"
    /\ ~args.wait_for_inclusion
    /\ ~args.wait_for_finalization
    /\ loc.success
    /\ pc = "report"

\* C6: an invocation of an extrinsic flow submits at most once, and after
\* a submission reported as failed the flow has ended with False.
C6_NoRetry ==
    /\ CountOp("submit_extrinsic") <= 1
    /\ CountOp("create_signed_extrinsic") <= 1
    /\ (loc.submitted /\ loc.outcome = "failed" /\ ~loc.success)
           => (pc = "done" /\ result = "False")

\* a delegation was rejected by the chain: one submission, result False
C6_Witness ==
    /\ flow = "delegate"
    /\ loc.submitted
    /\ loc.outcome = "failed"
    /\ ~loc.success
    /\ pc = "done"
    /\ result = "False"
    /\ CountOp("submit_extrinsic") = 1

\* C7: burned_register_extrinsic for a hotkey that already has a neuron on
\* the subnet returns True with no prompt and nothing composed, signed or
\* submitted.
C7_AlreadyRegistered ==
    (flow = "burned_register" /\ HasOp("neuron_for_uid") /\ ~loc.neuron_is_null)
    => /\ pc = "done"
       /\ result = "True"
       /\ ~HasOp("Confirm.ask")
       /\ ~HasOp("compose_call")
       /\ NoWrite

C7_Witness ==
    /\ flow = "burned_register"
    /\ args.prompt
    /\ HasOp("neuron_for_uid")
    /\ ~loc.neuron_is_null
    /\ result = "True"

\* a take in thousandths on the u16 scale
U16Of(take) ==
    IF take >= 0 THEN (take * 65535) \div 1000
                 ELSE -(((-take) * 65535) \div 1000)

\* C8: set_take_extrinsic composes increase_take when the requested take is
\* above the observed one on the u16 scale (or no delegate info came back),
\* decrease_take when it is below, and returns True with nothing composed
\* or submitted when they are equal.
C8_TakeDirection ==
    (flow = "set_take_extrinsic" /\ pc \in {"submit", "done"}) =>
        LET req == U16Of(args.take)
            cur == U16Of(loc.delegate.take)
        IN  IF loc.delegate.none \/ req > cur
            THEN HasOp("compose_call") /\ loc.call = Call("increase_take", args.take)
            ELSE IF req < cur
            THEN HasOp("compose_call") /\ loc.call = Call("decrease_take", args.take)
            ELSE /\ pc = "done"
                 /\ result = "True"
                 /\ ~HasOp("compose_call")
                 /\ NoWrite

\* current take 0.10, requested 0.10: nothing to do
C8_Witness ==
    /\ flow = "set_take_extrinsic"
    /\ pc = "done"
    /\ ~loc.delegate.none
    /\ loc.delegate.take = 100
    /\ args.take = 100
    /\ result = "True"
    /\ log = <<Ev("rpc_request", head, NoCall)>>

\* C9: set_take returns False, with no take extrinsic submitted, for every
\* take above 0.18 and for every negative take.
C9_TakeRangeEnforced ==
    (/\ flow = "set_take"
     /\ pc = "done"
     /\ result # "raise"
     /\ (args.take > 180 \/ args.take < 0))
    => (result = "False" /\ NoWrite)

\* C10: with delegate=True the submitted add_stake call carries the
\* requested amount minus 1000 rao when the request exceeds 1000 rao, and the
\* requested amount otherwise.
C10_WithheldAmountSubmitted ==
    (flow = "delegate" /\ args.delegate /\ HasOp("submit_extrinsic")) =>
        loc.call = Call("add_stake",
                        IF args.amount > 1000 THEN args.amount - 1000
                                              ELSE args.amount)

\* the calls of the running command, those of the extrinsic flow it called
\* included
FullLog == args.caller.log \o log

InCommand(name) == flow = name \/ args.caller.name = name

\* what the membership query of the running senate_vote answered
SenateMember ==
    IF flow = "senate_vote" THEN loc.senate_member
    ELSE args.caller.loc.senate_member

\* what senate_vote does only for a senate member
MemberOnlyOps ==
    {"unlock_hotkey", "unlock_coldkey", "Confirm.ask", "compose_call",
     "create_signed_extrinsic", "submit_extrinsic"}

\* C11: senate_vote with a hotkey that is not a senate member returns False
\* with no key unlocked, no prompt shown and no vote composed or submitted;
\* a prompt, an unlock or a submission of senate_vote always comes after a
\* membership query that answered true.
C11_MembershipGate ==
    /\ (flow = "senate_vote" /\ loc.senate_member = "False")
           => /\ pc = "done"
              /\ result = "False"
              /\ \A i \in 1..Len(log) : log[i].op \notin MemberOnlyOps
    /\ InCommand("senate_vote")
           => \A i \in 1..Len(FullLog) :
                  FullLog[i].op \in MemberOnlyOps
                      => /\ SenateMember = "True"
                         /\ \E j \in 1..(i - 1) :
                                FullLog[j] = Ev("query", -1,
                                                Call("SenateMembers", 0))

\* the membership query answered false and senate_vote has returned
C11_Witness ==
    /\ flow = "senate_vote"
    /\ loc.senate_member = "False"
    /\ pc = "done"
    /\ result = "False"
    /\ log = session_enter \o <<Ev("query", -1, Call("SenateMembers", 0))>>
                 \o session_exit

\* the side of the vote data the voter's choice belongs to
ChosenSide == IF args.vote THEN "ayes" ELSE "nays"

\* C12: after a submission reported as successful, vote_senate_extrinsic
\* returns True only if the re-queried vote data shows the hotkey on the
\* chosen side (ayes for vote True, nays for vote False), and returns False
\* when it does not.
C12_ChoiceVerified ==
    (/\ flow = "vote_senate"
     /\ pc = "done"
     /\ loc.submitted
     /\ loc.success
     /\ loc.vote_record \in {"ayes", "nays", "absent"})
    => /\ (result = "True" => loc.vote_record = ChosenSide)
       /\ (loc.vote_record # ChosenSide => result = "False")

\* the fraction f equals n / d
FracEq(f, n, d) == f.den # 0 /\ f.num * d = n * f.den

\* C13: get_weights maps every netuid of a uid's stored list to
\* val / max(sum of the list's vals, 1): [(1,3),(2,1)] gives {1: 3/4,
\* 2: 1/4}, an all-zero list gives zeros over a denominator of 1, and an empty
\* list gives an empty mapping with no division made.
C13_Normalized ==
    (flow = "get_weights" /\ pc \in {"render", "done"} /\ result # "raise") =>
        LET wd == args.weights_data
            total == sum_vals(wd)
            m == loc.uid_to_weights
        IN  /\ DOMAIN m = {wd[i][1] : i \in 1..Len(wd)}
            /\ \A i \in 1..Len(wd) :
                   FracEq(m[wd[i][1]], wd[i][2], IF total >= 1 THEN total ELSE 1)
            /\ (wd = <<<<1, 3>>, <<2, 1>>>>
                    => FracEq(m[1], 3, 4) /\ FracEq(m[2], 1, 4))
            /\ (total = 0 => \A n \in DOMAIN m : m[n].num = 0 /\ m[n].den = 1)
            /\ (wd = <<>> => m = <<>> /\ loc.divisions = 0)
            /\ (wd # <<>> => loc.divisions = 1)

\* the all-zero list [(1,0),(2,0)] has been normalized
C13_Witness ==
    /\ flow = "get_weights"
    /\ pc = "done"
    /\ args.weights_data = <<<<1, 0>>, <<2, 0>>>>
    /\ loc.uid_to_weights[1] = [num |-> 0, den |-> 1]
    /\ loc.uid_to_weights[2] = [num |-> 0, den |-> 1]

\* calls that disconnect
ReleaseOps == {"session_exit", "substrate.close"}

\* logged calls that do not use the connection
LocalOps ==
    {"unlock_hotkey", "unlock_coldkey", "Confirm.ask",
     "get_delegates_details_from_github"}

\* the connection was used and nothing has disconnected it since
ConnectionOpen ==
    \E i \in 1..Len(log) :
        /\ log[i].op \notin (ReleaseOps \cup LocalOps)
        /\ \A j \in (i + 1)..Len(log) : log[j].op \notin ReleaseOps

\* the commands that open the session
SessionCommands ==
    {"register", "nominate_command", "senate_vote", "set_take",
     "delegate_stake", "delegate_unstake", "root_list", "proposals",
     "list_delegates"}

\* C14: a command that opened the chain session has ended, by completion, by
\* an early return or by an exception, only with the connection released.
C14_ConnectionReleased ==
    (flow \in SessionCommands /\ pc = "done") => ~ConnectionOpen

\* C15: is_valid_bittensor_address_or_public_key answers True or False for
\* every destination and never raises: False for values that are neither str
\* nor bytes, for bytes not 32 long, for hex strings not 64 or 66 long, and
\* for whatever the SS58 or keypair library rejects or raises on.
C15_ValidatorNeverRaises ==
    (flow = "transfer" /\ pc # "validate") =>
        LET d == args.destination
            v == is_valid_bittensor_address_or_public_key(d)
        IN  /\ v \in {"True", "False"}
            /\ (d.kind \notin {"str", "bytes"} => v = "False")
            /\ (d.kind = "bytes" /\ d.len # 32 => v = "False")
            /\ (d.kind = "str" /\ d.hex /\ d.len \notin {64, 66}
                    => v = "False")
            /\ (d.lib # "ok" => v = "False")

\* C16: a transfer whose submission succeeded (success response, or no wait
\* flag set) re-queries the sender's balance and returns True; a transfer
\* the chain rejected returns False with no balance query after the
\* submission.
C16_TransferResult ==
    (/\ flow = "transfer"
     /\ pc = "done"
     /\ loc.submitted
     /\ loc.outcome # "error")
    => IF loc.success
       THEN result = "True" /\ CountOp("get_balance") = 2
       ELSE result = "False" /\ CountOp("get_balance") = 1

\* C17: set_take with a take above 0.18 returns False without a
\* delegate-status query or a delegate-info request having been issued.
C17_CeilingCheckedLocally ==
    (/\ flow = "set_take"
     /\ pc = "done"
     /\ result # "raise"
     /\ args.take > TAKE_CEILING)
    => /\ result = "False"
       /\ ~HasOp("is_hotkey_delegate")
       /\ ~HasOp("rpc_request")

\* C18: delegate_extrinsic for a hotkey that is not a delegate on chain
\* returns False with no add_stake or remove_stake call composed, signed or
\* submitted.
C18_NonDelegateRefused ==
    (flow = "delegate" /\ ~args.hotkey_is_delegate)
    => /\ ~HasOp("compose_call")
       /\ NoWrite
       /\ (pc = "done" /\ result # "raise" => result = "False")

\* the extrinsic flows that take a prompt argument
PromptedFlows == {"transfer", "delegate", "burned_register", "vote_senate"}

\* C19: in a flow run with prompt=True, a rejected confirmation means the
\* flow has returned False with nothing signed or submitted, and whatever is
\* signed or submitted comes after a confirmation that was accepted.
C19_PromptGate ==
    (flow \in PromptedFlows /\ args.prompt) =>
        /\ (HasOp("Confirm.ask") /\ ~loc.confirmed)
               => (pc = "done" /\ result = "False" /\ NoWrite)
        /\ \A j \in 1..Len(log) :
               log[j].op \in WriteOps
                   => /\ loc.confirmed
                      /\ \E i \in 1..(j - 1) : log[i].op = "Confirm.ask"

\* the delegation was computed, the user said no
C19_Witness ==
    /\ flow = "delegate"
    /\ args.prompt
    /\ HasOp("Confirm.ask")
    /\ ~loc.confirmed
    /\ pc = "done"
    /\ result = "False"
    /\ NoWrite

\* the views that look hotkeys up in the delegate registry
RegistryViews ==
    {"root_list", "get_senate", "proposals", "list_delegates", "my_delegates"}

\* the view has fetched its data and closed the connection: what is left is
\* rendering the table
DataFetched == loc.delegate_info # "" /\ HasOp("substrate.close")

\* C20: a registry view that has fetched its chain data renders one row per
\* hotkey whatever the registry fetch gave: a hotkey the registry does not
\* know (or every hotkey, when the fetch gave no data) gets a blank name, or
\* its raw address in a vote list.
C20_RegistryBestEffort ==
    (flow \in RegistryViews /\ pc = "done" /\ DataFetched) =>
        /\ result = "None"
        /\ Len(loc.table) = Len(loc.hotkeys)
        /\ \A i \in 1..Len(loc.table) :
               (loc.delegate_info # "partial" \/ loc.hotkeys[i] # "hk1")
                   => loc.table[i] = (IF flow = "proposals"
                                      THEN loc.hotkeys[i] ELSE "")

\* the reads transfer_extrinsic bases its balance decision on
DecisionReads == {"get_balance", "get_existential_deposit", "get_payment_info"}

\* C21: in transfer_extrinsic the sender balance, the existential deposit and
\* the fee estimate are all read at the one block hash taken from
\* get_chain_head, so the three values describe the same block even when
\* the head has advanced between the reads.
C21_ReadsPinned ==
    At("transfer", "check") =>
        /\ CountOp("get_chain_head") = 1
        /\ \A i \in 1..Len(log) :
               log[i].op \in DecisionReads => log[i].at = loc.block_hash

\* the storage queries a view has made so far
StorageQueries ==
    {i \in 1..Len(log) : log[i].op \in {"query", "query_multiple", "neurons_lite"}}

\* C22: a read view reads all its storage at one block: proposals gives the
\* hash from get_chain_head to the senate-member query and to every
\* proposal query, and the senate query, the neuron list and the stake
\* batch of root_list are served at the same block, also when the chain
\* head advances while the view runs.
C22_ViewReadsOneBlock ==
    /\ flow = "proposals" =>
           \A i, j \in StorageQueries :
               log[i].at # -1 /\ log[i].at = log[j].at
    /\ flow \in {"proposals", "root_list"} =>
           Cardinality(loc.blocks_read) <= 1

\* C23: burned_register_extrinsic for a hotkey without a neuron, once the
\* confirmation is accepted, submits exactly one burned_register call and
\* ends with a verdict: False for a failed submission, otherwise True or
\* False after the balance and the hotkey's netuids were read again.
C23_RegistrationSubmitted ==
    (flow = "burned_register" /\ pc = "done" /\ HasOp("compose_call")) =>
        /\ CountOp("submit_extrinsic") = 1
        /\ result \in {"True", "False"}
        /\ result = "True" => HasOp("get_netuids_for_hotkey")

\* round(n / d) for d > 0, ties to the even neighbour
RoundDiv(n, d) ==
    LET q == n \div d
        r == n - q * d
    IN  IF 2 * r < d THEN q
        ELSE IF 2 * r > d THEN q + 1
        ELSE IF q % 2 = 0 THEN q ELSE q + 1

\* C24: set_take_extrinsic brings the requested take and the observed take
\* to the u16 scale by the same rule, round(take * 65535), so a requested
\* take equal to the current one is a no-op.
C24_TakeRounded ==
    (flow = "set_take_extrinsic" /\ pc \in {"choose", "submit", "done"}) =>
        /\ loc.take_u16 = RoundDiv(args.take * U16_MAX, 1000)
        /\ ~loc.delegate.none =>
               loc.current_take = RoundDiv(loc.delegate.take * U16_MAX, 1000)
        /\ (~loc.delegate.none /\ args.take = loc.delegate.take
            /\ pc \in {"submit", "done"}) => ~HasOp("compose_call")

\* the amount delegate_extrinsic starts from: "Balance.from_tao(amount)", or
\* the whole balance when amount is None
RequestedStake ==
    IF args.amount_is_none THEN loc.account_balance
    ELSE from_tao(from_rao(args.amount))

\* delegate_extrinsic has computed its staking balance
StakingBalanceComputed ==
    /\ flow = "delegate"
    /\ HasOp("get_balance")
    /\ pc # "check"

\* C25: when delegate=True the staking balance is the requested amount less
\* 1000 rao, unless the request is below 1000 rao and is staked in full; a
\* request of exactly 1000 rao has the 1000 rao withheld.  When
\* delegate=False nothing is withheld.
C25_Withholding ==
    StakingBalanceComputed =>
        loc.staking_balance =
            IF args.delegate /\ AtLeastRao(RequestedStake, B1K)
            THEN BalSub(RequestedStake, from_rao(B1K))
            ELSE RequestedStake

\* C26: burned_register_extrinsic for a netuid whose subnet does not exist
\* returns False at the subnet test: the coldkey is not unlocked, the
\* hotkey's uid is not queried and no call is composed or submitted.
C26_MissingSubnetRefused ==
    (flow = "burned_register" /\ ~args.subnet_exists /\ pc # "subnet") =>
        /\ pc = "done"
        /\ result = "False"
        /\ log = <<>>

\* chain reads of transfer_extrinsic and delegate_extrinsic
ReadOps ==
    {"get_chain_head", "get_balance", "get_existential_deposit",
     "get_payment_info", "does_hotkey_exist", "query"}

\* the calls during which the extrinsic is being signed, submitted and its
\* response awaited
InWrite == {i \in 1..Len(log) : log[i].op \in WriteOps \cup {"process_events"}}

\* the reads each flow makes before it decides
ReadsBeforeWrite ==
    IF flow = "transfer"
    THEN {"get_chain_head", "get_balance", "get_existential_deposit",
          "get_payment_info"}
    ELSE {"get_chain_head", "get_balance", "does_hotkey_exist"}

C28_SuccessMeansTakeSet ==
    (flow = "set_take" /\ pc = "done" /\ result = "True") =>
        /\ HasOp("rpc_request")
        /\ HasOp("submit_extrinsic") \/ loc.take_u16 = loc.current_take

\* C29: delegate_extrinsic returns False and asks, composes, signs and
\* submits nothing whenever the staking balance exceeds the coldkey's free
\* balance, for delegate=False as for delegate=True: an undelegation of more
\* than the free balance is refused.
C29_BalanceCheckBothWays ==
    (StakingBalanceComputed
     /\ BalGt(loc.staking_balance, loc.account_balance)) =>
        /\ pc = "done"
        /\ result = "False"
        /\ NoWrite
        /\ ~HasOp("compose_call")
        /\ ~HasOp("Confirm.ask")

\* an undelegation refused for want of free balance
C29_Witness ==
    /\ flow = "delegate"
    /\ pc = "done"
    /\ result = "False"
    /\ ~args.delegate
    /\ ~args.amount_is_none
    /\ loc.account_balance = Bal(0, 100)
    /\ loc.staking_balance = from_tao(from_rao(args.amount))
    /\ BalGt(loc.staking_balance, loc.account_balance)
    /\ Len(log) >= 3
    /\ log[Len(log)].op \in {"does_hotkey_exist", "query"}

\* C30: a command makes no chain query and no submission once the session
\* block it opened has been left or substrate.close() was called: in
\* root_list, set_boost and set_slash the calls of neurons_lite,
\* query_multiple and set_root_weights_extrinsic lie inside the session.
C30_NoCallAfterRelease ==
    flow \in {"root_list", "set_boost", "set_slash"} =>
        \A i, j \in 1..Len(log) :
            (i < j /\ log[i].op \in ReleaseOps) =>
                log[j].op \in ReleaseOps \cup LocalOps

=============================================================================
